---- MODULE Spec2Model ----
(***************************************************************************)
(* Schedule materialization and conflict detection of the Semestra         *)
(* backend (src/backend/main.py, src/backend/utils.py,                     *)
(* src/backend/schemas.py, src/backend/models.py).                         *)
(*                                                                         *)
(* Specifications:                                                         *)
(*   Spec         detect_conflicts applied to bounded occurrence lists     *)
(*   SpecStore    single requests on event types, sections and events      *)
(*   SpecBatch    batch requests on the events, each kept with its answer  *)
(*   SpecResolve  collect_*_week_items on bounded stored rows              *)
(*   SpecImport   parse_ics_schedule on the occurrences of a meeting key   *)
(*   SpecExport   a schedule export, week by week, amid concurrent writes  *)
(*   SpecWeeks    parse_export_weeks on bounded requests                   *)
(*   SpecExpand   _expand_occurrence_dates on bounded weekly rules         *)
(*   SpecParse    parse_ics_schedule on calendars of a few VEVENTs         *)
(*   SpecWidget   the widget requests of one user                          *)
(*   SpecGpa      course and program requests and the GPA aggregates       *)
(*   SpecUpload   create_semester_from_ics on calendars of a few VEVENTs   *)
(*   SpecData     import_user_data on the programs of one user             *)
(***************************************************************************)
EXTENDS Integers, Sequences, FiniteSets, TLC

VARIABLES
    input,      \* detect_conflicts: the list handed to the first call
    items,      \* detect_conflicts: the list as it is now (mutated in place)
    runs,       \* detect_conflicts: number of calls made on the list
    eventTypes, \* course_event_types rows of the course: [code, track_attendance]
    sections,   \* course_sections rows of the course, by section_id
    events,     \* course_events rows of the course, by id (None: no such row)
    last,       \* the last request made and the response it got
    stored,     \* week resolution: the course_events rows the query returns
    semester_days, \* week resolution: inclusive length of the semester in days
    requested_week, \* week resolution: the week asked for
    call,       \* week resolution: the collector called, if any
    resolved,   \* week resolution: the items and warnings it returned
    occurrence_dates, \* ICS import: dates of the occurrences of one meeting key
    meeting,    \* ICS import: the meeting emitted for them (no keys: none yet)
    weekly_rule, \* ICS import: the rule handed to _expand_occurrence_dates
    expansion,  \* ICS import: what it returned (no keys: not called yet)
    components, \* ICS import: the VEVENTs of the uploaded calendar
    schedule,   \* ICS import: what parse_ics_schedule returned (no keys: not called)
    semester_start_date, \* export: semester.start_date
    clock,      \* export: today, in days after semester.start_date, and whether
                \* the program timezone is a valid one
    export_request, \* export: the request being served and its format (no keys: none)
    export_weeks,   \* export: the weeks parse_export_weeks returned
    merged_items,   \* export: merged_items so far
    seen,       \* export: the rows the query of each finished week returned
    export_response, \* export: the response (no keys: none yet)
    writes,     \* export: event writes committed by other requests meanwhile
    semesters,  \* widgets: ids of the semesters created so far
    widgets,    \* widgets: the rows of the widgets table, by id
    widget_ids, \* widgets: number of widget ids handed out so far
    widget_last, \* widgets: the last widget request and the response it got
    gpa_courses, \* GPA: the rows of the courses table, by id
    gpa_course_ids, \* GPA: number of course ids handed out so far
    gpa_averages, \* GPA: average_scaled of each semester
    gpa_program, \* GPA: cgpa_scaled and gpa_scaling_table of the program
    ics_tables, \* ICS upload: the committed rows of the tables it writes
    ics_response, \* ICS upload: the response (no keys: none yet)
    user_programs, \* data import: the rows of the programs table of the user
    program_ids, \* data import: number of program ids handed out so far
    import_last \* data import: the last import request and its status

detectVars == <<input, items, runs>>
storeVars == <<eventTypes, sections, events, last>>
resolveVars == <<stored, semester_days, requested_week, call, resolved>>
importVars == <<occurrence_dates, meeting, weekly_rule, expansion, components, schedule>>
exportVars == <<semester_start_date, clock, export_request, export_weeks, merged_items, seen,
                export_response, writes>>
widgetVars == <<semesters, widgets, widget_ids, widget_last>>
gpaVars == <<gpa_courses, gpa_course_ids, gpa_averages, gpa_program>>
uploadVars == <<ics_tables, ics_response>>
dataVars == <<user_programs, program_ids, import_last>>
appVars == <<widgetVars, gpaVars, uploadVars, dataVars>>
oldVars == <<detectVars, storeVars, resolveVars, importVars, exportVars>>
notWidgetVars == <<oldVars, gpaVars, uploadVars, dataVars>>
notGpaVars == <<oldVars, widgetVars, uploadVars, dataVars>>
notDataVars == <<oldVars, widgetVars, gpaVars, uploadVars>>
vars == <<input, items, runs, eventTypes, sections, events, last,
          stored, semester_days, requested_week, call, resolved, occurrence_dates, meeting,
          weekly_rule, expansion, components, schedule,
          semester_start_date, clock, export_request, export_weeks, merged_items, seen,
          export_response, writes,
          semesters, widgets, widget_ids, widget_last,
          gpa_courses, gpa_course_ids, gpa_averages, gpa_program,
          ics_tables, ics_response,
          user_programs, program_ids, import_last>>

(***************************************************************************)
(* Bounds                                                                  *)
(***************************************************************************)
MaxItems == 4      \* longest list of active occurrences
MaxMixed == 3      \* longest list that also holds disabled or skipped occurrences
MaxTime == 3
MaxRuns == 2
MaxEvents == 2     \* course_events rows the course may hold
MaxBatch == 2      \* items of one batch request
MaxAnyRows == 1    \* longest list of rows drawn from every column combination
MaxPairRows == 2   \* longest list of rows of two courses
MaxRows == 3       \* longest list of stored rows
MaxSemesterDays == 22
MaxFirstDay == 8   \* latest first occurrence, in days after the semester start
MaxSpanWeeks == 5  \* weeks between the first and the last occurrence of a key
MaxExportRows == 2 \* rows stored when an export begins
MaxWrites == 1     \* event writes committed while one export runs
MaxSpanDays == 10  \* days of each stretch of end dates tried for a rule
MaxInterval == 2   \* largest INTERVAL of a rule
MaxComponents == 2 \* VEVENTs of an uploaded calendar
MaxWidgets == 2    \* widget ids handed out
MaxImported == 2   \* most programs in the data of one import
MaxProgramIds == 4 \* most program ids handed out
MaxCourses == 2    \* course ids handed out

CourseIds == {"c1", "c2"}
Days == {1, 2}

\* Python's None
None == "None"

(***************************************************************************)
(* Occurrences (the dicts built by event_to_week_item)                     *)
(***************************************************************************)
Times == 1..MaxTime

\* An occurrence as event_to_week_item returns it: not yet annotated.
FreshItems ==
    {it \in [course_id : CourseIds, day_of_week : Days,
             start_time : Times, end_time : Times,
             enable : BOOLEAN, skip : BOOLEAN,
             is_conflict : {FALSE}, conflict_group_id : {None}] :
        it.start_time < it.end_time}

ActiveFreshItems == {it \in FreshItems : it.enable /\ ~it.skip}

\* the lists of length n over S
ListsOf(S, n) == [1..n -> S]

(***************************************************************************)
(* detect_conflicts                                                        *)
(***************************************************************************)
\* a slip: the skip flag is not looked at
is_active_ignoring_skip(item) == item.enable

\* if item["enable"] and not item["skip"]
is_active(item) == item.enable /\ ~item.skip

\* active_indices: the indices with enable and not skip, in input order
RECURSIVE active_indices_from(_, _)
active_indices_from(its, index) ==
    IF index > Len(its) THEN <<>>
    ELSE IF is_active(its[index])
         THEN <<index>> \o active_indices_from(its, index + 1)
         ELSE active_indices_from(its, index + 1)

active_indices(its) == active_indices_from(its, 1)

\* find_parent(x): the root of x, and the parent map after path compression
RECURSIVE find_parent(_, _)
find_parent(parent, x) ==
    IF parent[x] # x
    THEN LET r == find_parent(parent, parent[x])
         IN  [parent |-> [r.parent EXCEPT ![x] = r.root], root |-> r.root]
    ELSE [parent |-> parent, root |-> x]

\* a slip: b itself, not its root, is hung under root_a
union_without_root(parent, a, b) ==
    LET ra == find_parent(parent, a)
        rb == find_parent(ra.parent, b)
    IN  IF ra.root # rb.root
        THEN [rb.parent EXCEPT ![b] = ra.root]
        ELSE rb.parent

\* union(a, b): parent[root_b] = root_a when the roots differ
union(parent, a, b) ==
    LET ra == find_parent(parent, a)
        rb == find_parent(ra.parent, b)
    IN  IF ra.root # rb.root
        THEN [rb.parent EXCEPT ![rb.root] = ra.root]
        ELSE rb.parent

\* a slip: b must start strictly inside a
overlaps_start_inside(a, b) ==
    /\ a.course_id # b.course_id
    /\ a.day_of_week = b.day_of_week
    /\ a.start_time < b.start_time
    /\ b.start_time < a.end_time

\* a slip: the day of the week is not compared
overlaps_any_day(a, b) ==
    /\ a.course_id # b.course_id
    /\ a.start_time < b.end_time
    /\ b.start_time < a.end_time

\* the test of the inner loop body: different course, same day, intersecting
overlaps(a, b) ==
    /\ a.course_id # b.course_id
    /\ a.day_of_week = b.day_of_week
    /\ a.start_time < b.end_time
    /\ b.start_time < a.end_time

\* for i in range(len(active)): for j in range(i + 1, len(active)): ...
RECURSIVE union_pairs(_, _, _, _, _)
union_pairs(its, act, parent, i, j) ==
    IF i > Len(act) THEN parent
    ELSE IF j > Len(act) THEN union_pairs(its, act, parent, i + 1, i + 2)
    ELSE union_pairs(its, act,
                     IF overlaps(its[act[i]], its[act[j]])
                     THEN union(parent, act[i], act[j])
                     ELSE parent,
                     i, j + 1)

\* groups: dict root -> members, kept as the roots in first-insertion order
\* (Python dicts iterate in insertion order) and the member lists
RECURSIVE build_groups(_, _, _, _)
build_groups(act, parent, k, groups) ==
    IF k > Len(act) THEN groups
    ELSE LET r == find_parent(parent, act[k])
             known == \E g \in 1..Len(groups) : groups[g].root = r.root
             added == IF known
                      THEN [g \in 1..Len(groups) |->
                              IF groups[g].root = r.root
                              THEN [groups[g] EXCEPT !.members = Append(@, act[k])]
                              ELSE groups[g]]
                      ELSE Append(groups, [root |-> r.root, members |-> <<act[k]>>])
         IN  build_groups(act, r.parent, k + 1, added)

\* f"conflict-{conflict_counter}"
group_id(conflict_counter) == <<"conflict", conflict_counter>>

\* a slip: the flag is flipped, not set
RECURSIVE mark_members_flipping(_, _, _, _)
mark_members_flipping(its, members, m, gid) ==
    IF m > Len(members) THEN its
    ELSE mark_members_flipping(
            [its EXCEPT ![members[m]] =
                [@ EXCEPT !.is_conflict = ~@, !.conflict_group_id = gid]],
            members, m + 1, gid)

RECURSIVE mark_members(_, _, _, _)
mark_members(its, members, m, gid) ==
    IF m > Len(members) THEN its
    ELSE mark_members(
            [its EXCEPT ![members[m]] =
                [@ EXCEPT !.is_conflict = TRUE, !.conflict_group_id = gid]],
            members, m + 1, gid)

\* a slip: the counter also advances past the groups of one member
RECURSIVE mark_groups_counting_singletons(_, _, _, _)
mark_groups_counting_singletons(its, groups, g, conflict_counter) ==
    IF g > Len(groups) THEN its
    ELSE IF Len(groups[g].members) <= 1
         THEN mark_groups_counting_singletons(its, groups, g + 1, conflict_counter + 1)
         ELSE mark_groups_counting_singletons(
                mark_members(its, groups[g].members, 1, group_id(conflict_counter)),
                groups, g + 1, conflict_counter + 1)

RECURSIVE mark_groups(_, _, _, _)
mark_groups(its, groups, g, conflict_counter) ==
    IF g > Len(groups) THEN its
    ELSE IF Len(groups[g].members) <= 1
         THEN mark_groups(its, groups, g + 1, conflict_counter)
         ELSE mark_groups(
                mark_members(its, groups[g].members, 1, group_id(conflict_counter)),
                groups, g + 1, conflict_counter + 1)

detect_conflicts(its) ==
    LET act == active_indices(its)
        parent0 == [idx \in {act[k] : k \in 1..Len(act)} |-> idx]
        parent == union_pairs(its, act, parent0, 1, 2)
        groups == build_groups(act, parent, 1, <<>>)
    IN  mark_groups(its, groups, 1, 1)

(***************************************************************************)
(* The course's stored event types, sections and events, and the request   *)
(* handlers that write them.  One course; every request is made by its     *)
(* owner; dayOfWeek, the times, the week range and the abbreviation of     *)
(* every request are valid ones.                                           *)
(***************************************************************************)
BUILTIN_EVENT_TYPE_CODES == {"LECTURE", "TUTORIAL", "PRACTICAL"}

\* the eventTypeCode / code strings requests carry
RawCodes == {"lecture", "LECTURE", "LECTURE "}

\* the weekPattern strings requests carry
RawWeekPatterns == {"EVERY", "ALTERNATING", "ODD", "every"}

SectionIds == {"1"}

\* a partial (exclude_unset) payload is the dict of the keys that were sent:
\* a function whose DOMAIN holds those keys
NoKeys == [k \in {} |-> k]

Opt(key, values) == {NoKeys} \cup {key :> v : v \in values}

Has(data, key) == key \in DOMAIN data

\* str.strip() and str.upper() on the strings above
strip(s) == IF s = "LECTURE " THEN "LECTURE" ELSE s

upper(s) ==
    CASE s = "lecture" -> "LECTURE"
      [] s = "every" -> "EVERY"
      [] OTHER -> s

\* class WeekPattern(str, Enum): the values request bodies may carry
SchemaWeekPattern == {"EVERY", "ODD", "EVEN"}

\* WEEK_PATTERN_VALUES of the ck_*_week_pattern check constraints
WEEK_PATTERN_VALUES == {"EVERY", "ODD", "EVEN"}

\* the values normalize_week_pattern lets through
NormalizedWeekPatterns == {"EVERY", "ALTERNATING"}

\* normalize_week_pattern: the upper-cased value, or INVALID_WEEK_PATTERN
normalize_week_pattern(value) ==
    IF upper(value) \in NormalizedWeekPatterns
    THEN [error |-> None, value |-> upper(value)]
    ELSE [error |-> "INVALID_WEEK_PATTERN", value |-> None]

Codes(db) == {t.code : t \in db.eventTypes}

\* the CourseEventType row of a code (get_event_type_or_404 after its check)
EventTypeOf(db, code) == CHOOSE t \in db.eventTypes : t.code = code

EventRows(db) == DOMAIN db.events

\* ensure_builtin_event_types_for_course / ensure_course_event_type_exists
ensure_builtin_event_types_for_course(db) ==
    [db EXCEPT !.eventTypes =
        @ \cup {[code |-> c, track_attendance |-> FALSE] :
                    c \in BUILTIN_EVENT_TYPE_CODES \ Codes(db)}]

\* normalize_event_skip
normalize_event_skip(db, event_type_code, skip_value) ==
    IF EventTypeOf(db, event_type_code).track_attendance THEN FALSE ELSE skip_value

\* validate_event_payload: the first error, or the stripped code, the
\* normalized week pattern and the normalized skip
validate_event_payload(db, payload) ==
    LET code == strip(payload.event_type_code)
        wp == normalize_week_pattern(payload.week_pattern)
    IN  IF wp.error # None THEN [error |-> wp.error]
        ELSE IF code \notin Codes(db) THEN [error |-> "EVENT_TYPE_NOT_FOUND"]
        ELSE IF payload.section_id # None /\ payload.section_id \notin DOMAIN db.sections
             THEN [error |-> "SECTION_NOT_FOUND"]
        ELSE IF payload.section_id # None
                /\ db.sections[payload.section_id].event_type_code # code
             THEN [error |-> "SECTION_EVENT_TYPE_MISMATCH"]
        ELSE [error |-> None,
              event_type_code |-> code,
              week_pattern |-> wp.value,
              skip |-> normalize_event_skip(db, code, payload.skip)]

\* the constraints of course_events checked at flush/commit: the event type
\* and section foreign keys and ck_course_events_week_pattern
EventRowAccepted(db, row) ==
    /\ row.event_type_code \in Codes(db)
    /\ row.section_id = None \/ row.section_id \in DOMAIN db.sections
    /\ row.week_pattern \in WEEK_PATTERN_VALUES

Failure(db, status, error) == [status |-> status, error |-> error, db |-> db, event_id |-> None]

Success(db, event_id) == [status |-> 200, error |-> None, db |-> db, event_id |-> event_id]

\* generate_uuid: an id no stored event has
FreshEventId(db) == CHOOSE id \in (1..MaxEvents) \ DOMAIN db.events : TRUE

\* the mapping with the row of id added or replaced
WithRow(rows, id, row) ==
    [k \in DOMAIN rows \cup {id} |-> IF k = id THEN row ELSE rows[k]]

\* the mapping without the row of id
WithoutRow(rows, id) == [k \in DOMAIN rows \ {id} |-> rows[k]]

\* _create_course_event_record (a failure leaves the session rolled back)
create_course_event_record(db, payload) ==
    LET db1 == ensure_builtin_event_types_for_course(db)
        v == validate_event_payload(db1, payload)
        row == [event_type_code |-> v.event_type_code,
                section_id |-> payload.section_id,
                week_pattern |-> v.week_pattern,
                skip |-> v.skip]
        id == FreshEventId(db)
    IN  IF v.error # None THEN Failure(db, 422, v.error)
        ELSE IF ~EventRowAccepted(db1, row) THEN Failure(db, 422, "EVENT_CREATE_CONFLICT")
        \* the bound of the model: no room for another row
        ELSE IF EventRows(db) = 1..MaxEvents THEN Failure(db, 0, "MaxEvents")
        ELSE Success([db1 EXCEPT !.events = WithRow(@, id, row)], id)

\* a slip: the stored code is the validated one (no upper-casing)
StoredEventTypeCode_not_uppered(value) == strip(value)

\* value.strip().upper(): the event_type_code _update_course_event_record stores
StoredEventTypeCode(value) == upper(strip(value))

\* _update_course_event_record
update_course_event_record(db, event_id, update_data) ==
    IF event_id \notin EventRows(db) THEN Failure(db, 404, "Event not found")
    ELSE
    LET db_event == db.events[event_id]
        \* update_data.get(key, db_event.key)
        Merged(key) == IF Has(update_data, key) THEN update_data[key] ELSE db_event[key]
        merged_payload == [event_type_code |-> Merged("event_type_code"),
                           section_id |-> Merged("section_id"),
                           week_pattern |-> Merged("week_pattern"),
                           skip |-> Merged("skip")]
        v == validate_event_payload(db, merged_payload)
        row == [event_type_code |->
                    IF Has(update_data, "event_type_code")
                    THEN StoredEventTypeCode(update_data.event_type_code)
                    ELSE db_event.event_type_code,
                section_id |-> Merged("section_id"),
                week_pattern |->
                    IF Has(update_data, "week_pattern")
                    THEN v.week_pattern
                    ELSE db_event.week_pattern,
                skip |-> v.skip]
    IN  IF v.error # None THEN Failure(db, 422, v.error)
        ELSE IF ~EventRowAccepted(db, row) THEN Failure(db, 422, "EVENT_UPDATE_CONFLICT")
        ELSE Success([db EXCEPT !.events = WithRow(@, event_id, row)], event_id)

\* _delete_course_event_record
delete_course_event_record(db, event_id) ==
    IF event_id \notin EventRows(db) THEN Failure(db, 404, "Event not found")
    ELSE Success([db EXCEPT !.events = WithoutRow(@, event_id)], None)

\* create_course_event_type: code = payload.code.strip(); a duplicate code
\* breaks uq_course_event_types_course_code
create_course_event_type(db, raw_code, track_attendance) ==
    LET code == strip(raw_code)
    IN  IF code \in Codes(db) THEN Failure(db, 422, "EVENT_TYPE_DUPLICATE")
        ELSE Success([db EXCEPT !.eventTypes =
                        @ \cup {[code |-> code, track_attendance |-> track_attendance]}], None)

\* the rows of course_events and course_sections whose foreign key names the code
References(db, code) ==
    \/ \E id \in EventRows(db) : db.events[id].event_type_code = code
    \/ \E sid \in DOMAIN db.sections : db.sections[sid].event_type_code = code

\* update_course_event_type
update_course_event_type(db, event_type_code, update_data) ==
    IF strip(event_type_code) \notin Codes(db) THEN Failure(db, 422, "EVENT_TYPE_NOT_FOUND")
    ELSE
    LET event_type == EventTypeOf(db, strip(event_type_code))
        previous_track == event_type.track_attendance
        old_code == event_type.code
        new_code == IF Has(update_data, "code") THEN strip(update_data.code) ELSE None
        \* for key, value in update_data.items(): setattr(event_type, key, value)
        updated == [code |-> IF Has(update_data, "code") THEN update_data.code ELSE old_code,
                    track_attendance |->
                        IF Has(update_data, "track_attendance")
                        THEN update_data.track_attendance
                        ELSE previous_track]
        code_changed == new_code # None /\ new_code # old_code
        \* skip is reset on the events that carry the code the type now has
        normalized == [id \in DOMAIN db.events |->
                        IF /\ db.events[id].event_type_code = updated.code
                           /\ db.events[id].skip
                        THEN [db.events[id] EXCEPT !.skip = FALSE]
                        ELSE db.events[id]]
        events1 == IF ~previous_track /\ updated.track_attendance
                   THEN normalized ELSE db.events
    IN  IF code_changed /\ new_code \in Codes(db)
        THEN Failure(db, 422, "EVENT_TYPE_DUPLICATE")
        \* the bulk UPDATE of the referencing rows names a code no stored
        \* event type has yet: fk_course_events_event_type fails, uncaught
        ELSE IF code_changed /\ References(db, old_code)
        THEN Failure(db, 500, "IntegrityError")
        \* commit: unique code, and no row may still reference the old code
        ELSE IF updated.code # old_code
                /\ (updated.code \in Codes(db) \/ References(db, old_code))
        THEN Failure(db, 422, "EVENT_TYPE_DUPLICATE")
        ELSE Success([db EXCEPT !.eventTypes = (@ \ {event_type}) \cup {updated},
                                !.events = events1], None)

\* validate_section_payload and create_course_section
create_course_section(db, section_id, raw_code, week_pattern) ==
    LET db1 == ensure_builtin_event_types_for_course(db)
        code == strip(raw_code)
        wp == normalize_week_pattern(week_pattern)
        row == [event_type_code |-> code, week_pattern |-> wp.value]
    IN  IF wp.error # None THEN Failure(db, 422, wp.error)
        ELSE IF code \notin Codes(db1) THEN Failure(db, 422, "EVENT_TYPE_NOT_FOUND")
        ELSE IF section_id \in DOMAIN db.sections \/ wp.value \notin WEEK_PATTERN_VALUES
             THEN Failure(db, 422, "SECTION_DUPLICATE")
        ELSE Success([db1 EXCEPT !.sections = WithRow(@, section_id, row)], None)

\* schemas.CourseEventCreate / CourseEventUpdate: weekPattern must be a
\* member of the WeekPattern enum
SchemaAccepts(data) == Has(data, "week_pattern") => data.week_pattern \in SchemaWeekPattern

\* _apply_batch_item: model_validate raises a ValidationError, which is no
\* HTTPException, when the data does not fit the schema
apply_batch_item(db, item) ==
    IF item.op # "delete" /\ ~SchemaAccepts(item.data)
    THEN Failure(db, 500, "ValidationError")
    ELSE IF item.op = "create" THEN create_course_event_record(db, item.data)
    ELSE IF item.op = "update" THEN update_course_event_record(db, item.event_id, item.data)
    ELSE delete_course_event_record(db, item.event_id)

BatchResult(db, status, error, failed_index, succeeded, failed) ==
    [db |-> db, status |-> status, error |-> error, failed_index |-> failed_index,
     succeeded |-> succeeded, failed |-> failed]

\* batch_course_events: db0 is the committed state the atomic batch rolls
\* back to; without atomic every successful item is committed on its own.
\* failed_index is <<failedIndex>> when the error carries one: an exception
\* that is no HTTPException passes both except clauses and ends the request
\* with a bare 500, the session closed without a commit
RECURSIVE batch_course_events(_, _, _, _, _, _, _)
batch_course_events(db0, db, atomic, batch, index, succeeded, failed) ==
    IF index > Len(batch)
    THEN BatchResult(db, 200, None, <<>>, succeeded, failed)
    ELSE LET r == apply_batch_item(db, batch[index])
         IN  IF r.status = 200
             THEN batch_course_events(db0, r.db, atomic, batch, index + 1, succeeded + 1, failed)
             ELSE IF r.status \in {0, 500}
             THEN BatchResult(IF atomic THEN db0 ELSE db, r.status, r.error, <<>>,
                              succeeded, failed)
             ELSE IF atomic
             THEN BatchResult(db0, 422, r.error, <<index - 1>>, succeeded, failed)
             ELSE batch_course_events(db0, db, atomic, batch, index + 1, succeeded, failed + 1)

(***************************************************************************)
(* Week resolution: event_to_week_item and the two collectors.  A stored   *)
(* row is a function of its columns; a NULL end_week is an absent key.     *)
(***************************************************************************)
\* the stored time strings of the model, in the order Python compares str
TIME_ORDER == <<"09:00", "10:00", "11:00", "9:30", "late">>

StoredTimes == {"09:00", "10:00", "9:30", "late"}

\* datetime.strptime(value, "%H:%M") returns (%H also takes one digit)
strptime_ok(value) == value \in {"09:00", "10:00", "11:00", "9:30"}

str_rank(value) == CHOOSE i \in DOMAIN TIME_ORDER : TIME_ORDER[i] = value

\* a >= b on str
str_ge(a, b) == str_rank(a) >= str_rank(b)

\* TRUE: returns; FALSE: raises HTTPException
validate_time_range(start_time, end_time) ==
    IF ~(strptime_ok(start_time) /\ strptime_ok(end_time)) THEN FALSE
    ELSE IF str_ge(start_time, end_time) THEN FALSE
    ELSE TRUE

\* TRUE: returns; FALSE: raises HTTPException
validate_day_of_week(day_of_week) ==
    IF day_of_week < 1 \/ day_of_week > 7 THEN FALSE ELSE TRUE

\* row.key or default: None and 0 are falsy
py_or(row, key, default) ==
    IF Has(row, key) /\ row[key] # 0 THEN row[key] ELSE default

\* max(1, math.ceil(total_days / 7)), total_days the inclusive length of the semester
get_semester_max_week(total_days) ==
    LET ceil == (total_days + 6) \div 7
    IN  IF ceil > 1 THEN ceil ELSE 1

matches_week_pattern_anchored_at_one(week_pattern, week, start_week) ==
    IF week_pattern = "EVERY" THEN TRUE
    ELSE IF week_pattern = "ALTERNATING" THEN (week - 1) % 2 = 0
    ELSE FALSE

matches_week_pattern(week_pattern, week, start_week) ==
    IF week_pattern = "EVERY" THEN TRUE
    ELSE IF week_pattern = "ALTERNATING"
    THEN LET anchor_week == IF start_week # 0 THEN start_week ELSE 1
         IN  (week - anchor_week) % 2 = 0
    ELSE FALSE

outside_week_range_start_only(week, effective_start_week, effective_end_week) ==
    week < effective_start_week

outside_week_range(week, effective_start_week, effective_end_week) ==
    week < effective_start_week \/ week > effective_end_week

EventId(n) == <<"event", n>>

Warning(event_id, what) == <<"Skipped invalid event", event_id, what>>

Dropped == [item |-> <<>>, warnings |-> <<>>]

Skipped_without_warning(event, what) == Dropped

Skipped(event, what) == [item |-> <<>>, warnings |-> <<Warning(event.id, what)>>]

\* the item as a list of zero or one dict, and the warnings it appended
event_to_week_item(event, week, max_week) ==
    IF ~(validate_time_range(event.start_time, event.end_time)
         /\ validate_day_of_week(event.day_of_week))
    THEN Skipped(event, "invalid time/day data")
    ELSE LET effective_start_week == py_or(event, "start_week", 1)
             effective_end_week == py_or(event, "end_week", max_week)
         IN  IF effective_start_week > effective_end_week
             THEN Skipped(event, "invalid week range")
             ELSE IF outside_week_range(week, effective_start_week, effective_end_week)
             THEN Dropped
             ELSE IF ~matches_week_pattern(event.week_pattern, week, effective_start_week)
             THEN Dropped
             ELSE IF ~event.enable
             THEN Dropped
             ELSE [item |-> <<[event_id |-> event.id,
                               course_id |-> event.course_id,
                               day_of_week |-> event.day_of_week,
                               start_time |-> event.start_time,
                               end_time |-> event.end_time,
                               week_pattern |-> event.week_pattern,
                               enable |-> event.enable,
                               skip |-> event.skip,
                               is_conflict |-> FALSE,
                               conflict_group_id |-> None,
                               week |-> week]>>,
                   warnings |-> <<>>]

\* the loop of both collectors over the rows the query returned
RECURSIVE collect_week_items(_, _, _, _, _, _)
collect_week_items(rows, index, week, max_week, its, warnings) ==
    IF index > Len(rows) THEN [items |-> its, warnings |-> warnings]
    ELSE LET r == event_to_week_item(rows[index], week, max_week)
         IN  collect_week_items(rows, index + 1, week, max_week,
                                its \o r.item, warnings \o r.warnings)

collect_semester_week_items(rows, total_days, week) ==
    collect_week_items(rows, 1, week, get_semester_max_week(total_days), <<>>, <<>>)

OfCourse(rows, course_id) ==
    LET Mine(event) == event.course_id = course_id IN SelectSeq(rows, Mine)

collect_course_week_items(rows, course_id, total_days, week) ==
    collect_week_items(OfCourse(rows, course_id), 1, week,
                       get_semester_max_week(total_days), <<>>, <<>>)

(***************************************************************************)
(* ICS import: the week indexes of the occurrences of one meeting key and  *)
(* the meeting parse_ics_schedule emits for them.                          *)
(***************************************************************************)
DEFAULT_WEEK_PATTERN == "EVERY"

Min(S) == CHOOSE x \in S : \A y \in S : x <= y

\* sorted(S)
RECURSIVE sorted(_)
sorted(S) == IF S = {} THEN <<>> ELSE <<Min(S)>> \o sorted(S \ {Min(S)})

\* _expand_week_indexes(d, d, 1, semester_start_date), dates counted from semester_start_date
expand_week_indexes(occurrence_date) ==
    LET week_index == (occurrence_date \div 7) + 1
    IN  {IF week_index > 1 THEN week_index ELSE 1}

resolve_week_pattern(weeks) ==
    IF Len(weeks) <= 1 THEN DEFAULT_WEEK_PATTERN
    ELSE LET gaps == {weeks[index + 1] - weeks[index] : index \in 1..(Len(weeks) - 1)}
         IN  IF gaps = {2}
             THEN IF weeks[1] % 2 = 1 THEN "ODD" ELSE "EVEN"
             ELSE DEFAULT_WEEK_PATTERN

\* the aggregate of one meeting key and the meeting built from it
parse_ics_schedule(dates) ==
    LET aggregate_weeks == UNION {expand_week_indexes(d) : d \in dates}
        weeks == sorted(aggregate_weeks)
        first_date == Min(dates)
    IN  [dayOfWeek |-> (first_date % 7) + 1,
         weekPattern |-> resolve_week_pattern(weeks),
         startWeek |-> weeks[1],
         endWeek |-> weeks[Len(weeks)]]

(***************************************************************************)
(* ICS import: the expansion of a weekly rule.  A date is a number of days *)
(* after some Monday.                                                      *)
(***************************************************************************)
\* the bound of "while guard < 128"
EXPANSION_GUARD == 128

\* date.isoweekday()
isoweekday(d) == (d % 7) + 1

\* the "for day in days" loop of one week: the occurrences after it and
\* whether it returned from the function (count reached)
RECURSIVE expand_week(_, _, _, _, _)
expand_week(rule, days, k, week_start, occurrences) ==
    IF k > Len(days) THEN [occurrences |-> occurrences, returned |-> FALSE]
    ELSE LET occurrence_date == week_start + (days[k] - 1)
         IN  IF occurrence_date < rule.start_date \/ occurrence_date > rule.end_date
             THEN expand_week(rule, days, k + 1, week_start, occurrences)
             ELSE LET appended == Append(occurrences, occurrence_date)
                  IN  IF Has(rule, "count") /\ Len(appended) >= rule.count
                      THEN [occurrences |-> appended, returned |-> TRUE]
                      ELSE expand_week(rule, days, k + 1, week_start, appended)

\* sorted(set(occurrences))
sorted_set(occurrences) ==
    LET numbered == [i \in DOMAIN occurrences |-> <<i, occurrences[i]>>]
        first_of_its_value(pair) ==
            \A j \in 1..(pair[1] - 1) : occurrences[j] # pair[2]
        distinct == SelectSeq(numbered, first_of_its_value)
        before(a, b) == a < b
    IN  SortSeq([i \in DOMAIN distinct |-> distinct[i][2]], before)

\* week_anchor + timedelta(days=guard * max(1, interval) * 7)
week_start_of(rule, guard) ==
    LET week_anchor == rule.start_date - (isoweekday(rule.start_date) - 1)
    IN  week_anchor + guard * (IF rule.interval > 1 THEN rule.interval ELSE 1) * 7

\* one pass of the while body with this guard; a pass after a break or a
\* return does nothing
expand_pass(rule, days, guard, loop) ==
    IF loop.outcome # "running" THEN loop
    ELSE IF week_start_of(rule, guard) > rule.end_date + 7
    THEN [loop EXCEPT !.outcome = "break"]
    ELSE LET week == expand_week(rule, days, 1, week_start_of(rule, guard), loop.occurrences)
         IN  [occurrences |-> week.occurrences,
              weeks |-> guard + 1,
              outcome |-> IF week.returned THEN "return" ELSE "running"]

\* the passes guard = start .. stop - 1 of the while loop, in this order
\* (the first half of them, then the second)
RECURSIVE expand_weeks(_, _, _, _, _)
expand_weeks(rule, days, start, stop, loop) ==
    IF loop.outcome # "running" \/ start >= stop THEN loop
    ELSE IF stop = start + 1 THEN expand_pass(rule, days, start, loop)
    ELSE LET half == (start + stop) \div 2
         IN  expand_weeks(rule, days, half, stop,
                          expand_weeks(rule, days, start, half, loop))

\* days = byday_days or [start_date.isoweekday()]
expansion_days(rule) ==
    IF rule.byday_days = <<>> THEN <<isoweekday(rule.start_date)>> ELSE rule.byday_days

\* the dates returned and the number of weeks iterated when the loop may
\* make this many passes
expand_within(rule, passes) ==
    LET loop == expand_weeks(rule, expansion_days(rule), 0, passes,
                             [occurrences |-> <<>>, weeks |-> 0, outcome |-> "running"])
    IN  [dates |-> IF loop.outcome = "return" THEN loop.occurrences
                   ELSE IF loop.occurrences = <<>> THEN <<rule.start_date>>
                   ELSE sorted_set(loop.occurrences),
         weeks |-> loop.weeks]

\* a slip: the loop runs until the end date is passed (no end date of the
\* model is further than four times the guard)
expand_occurrence_dates_unguarded(rule) == expand_within(rule, 4 * EXPANSION_GUARD)

\* rule: start_date, end_date, interval, byday_days and, unless None, count
expand_occurrence_dates(rule) == expand_within(rule, EXPANSION_GUARD)

(***************************************************************************)
(* ICS import: parse_ics_schedule on a whole calendar.  A VEVENT is a      *)
(* record of its DTSTART, DTEND, SUMMARY and RRULE (no keys: no RRULE);    *)
(* a DTSTART or DTEND is a record whose kind is "missing", "undecodable",  *)
(* "date" or "datetime"; LOCATION and DESCRIPTION are absent.              *)
(***************************************************************************)
WEEKDAY_TOKEN_TO_ISO == [MO |-> 1, TU |-> 2, WE |-> 3, TH |-> 4, FR |-> 5, SA |-> 6, SU |-> 7]

\* _parse_byday_values on a list of two-letter tokens
parse_byday_values(values) ==
    LET known == SelectSeq(values, LAMBDA token : token \in DOMAIN WEEKDAY_TOKEN_TO_ISO)
    IN  sorted_set([i \in DOMAIN known |-> WEEKDAY_TOKEN_TO_ISO[known[i]]])

\* a slip: the window of a COUNT without UNTIL forgets the interval
parse_weekly_recurrence_weekly_window(component, start_date) ==
    LET rrule == component.rrule
        single == [start_date |-> start_date, end_date |-> start_date,
                   interval |-> 1, byday_days |-> <<>>, count |-> 1]
    IN  IF rrule = NoKeys THEN single
        ELSE IF rrule.FREQ # "WEEKLY" THEN single
        ELSE LET interval == IF Has(rrule, "INTERVAL") /\ rrule.INTERVAL > 1
                             THEN rrule.INTERVAL ELSE 1
                 count == IF rrule.COUNT > 1 THEN rrule.COUNT ELSE 1
                 recurrence_end_date ==
                     IF Has(rrule, "UNTIL") THEN rrule.UNTIL.date
                     ELSE IF Has(rrule, "COUNT") THEN start_date + (count * 7) + 7
                     ELSE start_date + 16 * 7
             IN  [start_date |-> start_date,
                  end_date |-> IF recurrence_end_date > start_date
                               THEN recurrence_end_date ELSE start_date,
                  interval |-> interval,
                  byday_days |-> parse_byday_values(rrule.BYDAY)]
                 @@ (IF Has(rrule, "COUNT") THEN "count" :> count ELSE NoKeys)

\* _parse_weekly_recurrence: the arguments _expand_occurrence_dates gets
parse_weekly_recurrence(component, start_date) ==
    LET rrule == component.rrule
        single == [start_date |-> start_date, end_date |-> start_date,
                   interval |-> 1, byday_days |-> <<>>, count |-> 1]
    IN  IF rrule = NoKeys THEN single
        ELSE IF rrule.FREQ # "WEEKLY" THEN single
        ELSE LET interval == IF Has(rrule, "INTERVAL") /\ rrule.INTERVAL > 1
                             THEN rrule.INTERVAL ELSE 1
                 count == IF rrule.COUNT > 1 THEN rrule.COUNT ELSE 1
                 recurrence_end_date ==
                     IF Has(rrule, "UNTIL") THEN rrule.UNTIL.date
                     ELSE IF Has(rrule, "COUNT") THEN start_date + (count * interval * 7) + 7
                     ELSE start_date + 16 * 7
             IN  [start_date |-> start_date,
                  end_date |-> IF recurrence_end_date > start_date
                               THEN recurrence_end_date ELSE start_date,
                  interval |-> interval,
                  byday_days |-> parse_byday_values(rrule.BYDAY)]
                 @@ (IF Has(rrule, "COUNT") THEN "count" :> count ELSE NoKeys)

\* _normalize_course_name on the summaries of the model
normalize_course_name(summary) ==
    CASE summary = "CSC108 LEC0101" -> "CSC108"
      [] summary = "MAT137 TUT0201" -> "MAT137"
      [] summary = "LEC0101" -> ""
      [] OTHER -> summary

\* _extract_section_fields on the summaries of the model
extract_section_fields(summary) ==
    CASE summary = "CSC108 LEC0101" -> [section_prefix |-> "LEC", section_id |-> "0101"]
      [] summary = "MAT137 TUT0201" -> [section_prefix |-> "TUT", section_id |-> "0201"]
      [] summary = "LEC0101" -> [section_prefix |-> "LEC", section_id |-> "0101"]
      [] OTHER -> [section_prefix |-> None, section_id |-> None]

DEFAULT_EVENT_TYPE_CODE == "LECTURE"

EVENT_TYPE_CODE_BY_SECTION_PREFIX(section_prefix) ==
    CASE section_prefix = "LEC" -> "LECTURE"
      [] section_prefix = "TUT" -> "TUTORIAL"
      [] section_prefix \in {"PRA", "LAB"} -> "PRACTICAL"
      [] OTHER -> section_prefix

\* _infer_event_type_code (no summary of the model without a section token
\* holds a prefix)
infer_event_type_code(summary, section_prefix) ==
    IF section_prefix # None THEN EVENT_TYPE_CODE_BY_SECTION_PREFIX(section_prefix)
    ELSE DEFAULT_EVENT_TYPE_CODE

\* datetime.strftime("%H:%M") on the whole hours of the model
strftime(value) ==
    CASE value.hour = 9 -> "09:00"
      [] value.hour = 10 -> "10:00"
      [] value.hour = 11 -> "11:00"

\* decoded_start.date(), or the date itself
date_value(value) == value.date

\* a slip: a < b
datetime_lt(a, b) ==
    \/ a.date < b.date
    \/ a.date = b.date /\ a.hour < b.hour

\* a <= b on two datetimes that are both floating or both zoned
datetime_le(a, b) ==
    \/ a.date < b.date
    \/ a.date = b.date /\ a.hour <= b.hour

\* the body of the loop over the VEVENTs for one of them: whether it raised,
\* what it appended to date_range_candidates and to raw_meetings
parse_component(component) ==
    LET decoded_start == component.dtstart
        decoded_end == component.dtend
        nothing == [raised |-> FALSE, candidates |-> <<>>, raw_meetings |-> <<>>]
    IN  IF \/ decoded_start.kind \in {"missing", "undecodable"}
           \/ decoded_end.kind \in {"missing", "undecodable"}
        THEN nothing
        ELSE
        LET start_date_value == date_value(decoded_start)
            end_date_value == IF decoded_end.kind = "datetime" THEN date_value(decoded_end)
                              ELSE decoded_end.date - 1
            candidate == <<start_date_value,
                           IF end_date_value < start_date_value THEN start_date_value
                           ELSE end_date_value>>
            skipped == [nothing EXCEPT !.candidates = <<candidate>>]
        IN  IF decoded_start.kind # "datetime" \/ decoded_end.kind # "datetime"
            THEN skipped
            ELSE IF decoded_start.aware # decoded_end.aware
            THEN [skipped EXCEPT !.raised = TRUE]
            ELSE IF datetime_le(decoded_end, decoded_start) THEN skipped
            ELSE IF component.summary = "" THEN skipped
            ELSE IF normalize_course_name(component.summary) = "" THEN skipped
            ELSE
            LET fields == extract_section_fields(component.summary)
                event_type_code == infer_event_type_code(component.summary,
                                                         fields.section_prefix)
                meeting_start_date == date_value(decoded_start)
                dates == expand_occurrence_dates(
                             parse_weekly_recurrence(component, meeting_start_date)).dates
            IN  [skipped EXCEPT !.raw_meetings =
                    [i \in DOMAIN dates |->
                        [courseName |-> normalize_course_name(component.summary),
                         eventTypeCode |-> upper(event_type_code),
                         sectionId |-> fields.section_id,
                         title |-> None,
                         instructor |-> None,
                         location |-> None,
                         dayOfWeek |-> isoweekday(dates[i]),
                         startTime |-> strftime(decoded_start),
                         endTime |-> strftime(decoded_end),
                         startDate |-> dates[i],
                         endDate |-> dates[i],
                         interval |-> 1,
                         note |-> None]]]

\* the loop over the VEVENTs from the k-th on
RECURSIVE parse_components(_, _, _)
parse_components(entries, k, parsed) ==
    IF k > Len(entries) \/ parsed.raised THEN parsed
    ELSE LET one == parse_component(entries[k])
         IN  parse_components(entries, k + 1,
                 [raised |-> one.raised,
                  candidates |-> parsed.candidates \o one.candidates,
                  raw_meetings |-> parsed.raw_meetings \o one.raw_meetings])

\* a slip: the key leaves the day of the week out
meeting_key_without_day(item) ==
    <<item.eventTypeCode, item.sectionId, item.title, item.instructor, item.location,
      0, item.startTime, item.endTime>>

meeting_key(item) ==
    <<item.eventTypeCode, item.sectionId, item.title, item.instructor, item.location,
      item.dayOfWeek, item.startTime, item.endTime>>

\* the elements of a list without the repetitions, in the order they first
\* appear (the keys of a dict filled in this order)
dict_keys(values) ==
    LET numbered == [i \in DOMAIN values |-> <<i, values[i]>>]
        distinct == SelectSeq(numbered,
                        LAMBDA pair : \A j \in 1..(pair[1] - 1) : values[j] # pair[2])
    IN  [i \in DOMAIN distinct |-> distinct[i][2]]

Max(S) == CHOOSE x \in S : \A y \in S : y <= x

\* the meeting built from the aggregate of one meeting key of one course
aggregate_meeting(raw_meetings, course_name, key, semester_start) ==
    LET grouped == {i \in DOMAIN raw_meetings :
                       /\ raw_meetings[i].courseName = course_name
                       /\ meeting_key(raw_meetings[i]) = key}
        weeks == sorted(UNION {expand_week_indexes(raw_meetings[i].startDate - semester_start) :
                                   i \in grouped})
    IN  [eventTypeCode |-> key[1],
         sectionId |-> key[2],
         title |-> key[3],
         instructor |-> key[4],
         location |-> key[5],
         dayOfWeek |-> key[6],
         startTime |-> key[7],
         endTime |-> key[8],
         weekPattern |-> resolve_week_pattern(weeks),
         startWeek |-> weeks[1],
         endWeek |-> weeks[Len(weeks)],
         note |-> None]

\* the order of str on the names, codes and section ids of the model
TEXT_ORDER == <<"", "0101", "0201", "CSC108", "LECTURE", "MAT137", "PRACTICAL", "TUTORIAL">>

text_rank(value) == CHOOSE i \in DOMAIN TEXT_ORDER : TEXT_ORDER[i] = value

\* the key of meetings.sort, as ranks
meeting_sort_key(item) ==
    <<item.dayOfWeek, str_rank(item.startTime), text_rank(item.eventTypeCode),
      text_rank(IF item.sectionId = None THEN "" ELSE item.sectionId)>>

\* tuple < tuple on keys of the same length
RECURSIVE tuple_lt(_, _, _)
tuple_lt(a, b, k) ==
    IF k > Len(a) THEN FALSE
    ELSE IF a[k] # b[k] THEN a[k] < b[k]
    ELSE tuple_lt(a, b, k + 1)

\* list.sort(key=...): stable, so a meeting goes after those whose key is
\* not greater
RECURSIVE sort_meetings(_)
sort_meetings(meetings) ==
    IF Len(meetings) <= 1 THEN meetings
    ELSE LET head == sort_meetings(SubSeq(meetings, 1, Len(meetings) - 1))
             item == meetings[Len(meetings)]
             before == SelectSeq(head, LAMBDA other :
                           ~tuple_lt(meeting_sort_key(item), meeting_sort_key(other), 1))
             after == SelectSeq(head, LAMBDA other :
                          tuple_lt(meeting_sort_key(item), meeting_sort_key(other), 1))
         IN  before \o <<item>> \o after

\* sorted(grouped_by_course.keys())
sorted_names(names) ==
    LET before(a, b) == text_rank(a) < text_rank(b)
    IN  SortSeq(dict_keys(names), before)

\* parse_ics_schedule on the VEVENTs of a calendar: what it returns, or that
\* it raised
parse_ics_calendar(entries) ==
    LET parsed == parse_components(entries, 1,
                      [raised |-> FALSE, candidates |-> <<>>, raw_meetings |-> <<>>])
        raw_meetings == parsed.raw_meetings
        candidate_starts == {parsed.candidates[i][1] : i \in DOMAIN parsed.candidates}
        candidate_ends == {parsed.candidates[i][2] : i \in DOMAIN parsed.candidates}
        semester_start ==
            Min({raw_meetings[i].startDate : i \in DOMAIN raw_meetings} \cup candidate_starts)
        semester_end ==
            Max({raw_meetings[i].endDate : i \in DOMAIN raw_meetings} \cup candidate_ends)
        names == sorted_names([i \in DOMAIN raw_meetings |-> raw_meetings[i].courseName])
        course(course_name) ==
            LET of_course == SelectSeq(raw_meetings,
                                 LAMBDA item : item.courseName = course_name)
                keys == dict_keys([i \in DOMAIN of_course |-> meeting_key(of_course[i])])
            IN  [name |-> course_name,
                 meetings |-> sort_meetings(
                     [i \in DOMAIN keys |->
                         aggregate_meeting(raw_meetings, course_name, keys[i],
                                           semester_start)])]
    IN  IF parsed.raised THEN [outcome |-> "raised", error |-> "TypeError"]
        ELSE IF raw_meetings = <<>> /\ parsed.candidates = <<>>
        THEN [outcome |-> "returned", dated |-> FALSE, courses |-> <<>>]
        ELSE [outcome |-> "returned", dated |-> TRUE,
              semesterStartDate |-> semester_start,
              semesterEndDate |-> semester_end,
              courses |-> [i \in DOMAIN names |-> course(names[i])]]

(***************************************************************************)
(* Schedule export: parse_export_weeks, build_export_payload and the ICS   *)
(* serialization.  A date is a day of 2026 counted from 1 (January 1st);   *)
(* today and the requested weeks are taken relative to the semester.       *)
(***************************************************************************)
\* semester_start + timedelta(days=(week - 1) * 7 + (day_of_week - 1))
week_date(semester_start, week, day_of_week) ==
    semester_start + ((week - 1) * 7 + (day_of_week - 1))

MONTH_DAYS == <<31, 28, 31, 30, 31, 30, 31, 31, 30, 31, 30, 31>>

\* the calendar date of an ordinal, as the export writes it
RECURSIVE calendar_date_from(_, _)
calendar_date_from(ordinal, month) ==
    IF ordinal <= MONTH_DAYS[month] THEN [year |-> 2026, month |-> month, day |-> ordinal]
    ELSE calendar_date_from(ordinal - MONTH_DAYS[month], month + 1)

calendar_date(ordinal) == calendar_date_from(ordinal, 1)

\* datetime.strptime(value, "%H:%M").time()
parse_time_value(value) ==
    CASE value = "09:00" -> [hour |-> 9, minute |-> 0]
      [] value = "10:00" -> [hour |-> 10, minute |-> 0]
      [] value = "11:00" -> [hour |-> 11, minute |-> 0]
      [] value = "9:30" -> [hour |-> 9, minute |-> 30]

\* datetime.combine(event_date, time)
combine(event_date, time) ==
    [year |-> event_date.year, month |-> event_date.month, day |-> event_date.day,
     hour |-> time.hour, minute |-> time.minute]

\* f"{event_id}-{week}@semestra": the week is written in digits, so the
\* text after the last hyphen is the week and the text before it the id
uid(event_id, week) == <<event_id, week, "@semestra">>

Raised(code) == [status |-> 422, error |-> code, weeks |-> <<>>]

Returned(weeks) == [status |-> 200, error |-> None, weeks |-> weeks]

\* list(range(first, last + 1))
range_list(start, stop) == [i \in 1..(stop - start + 1) |-> start + i - 1]

\* the first HTTPException validate_week_range raises, None when it returns
validate_week_range(week_range, code_prefix) ==
    IF Has(week_range, "start_week") /\ week_range.start_week < 1
    THEN <<code_prefix, "INVALID_START_WEEK">>
    ELSE IF Has(week_range, "end_week") /\ week_range.end_week < 1
    THEN <<code_prefix, "INVALID_END_WEEK">>
    ELSE IF Has(week_range, "start_week") /\ Has(week_range, "end_week")
            /\ week_range.start_week > week_range.end_week
    THEN <<code_prefix, "INVALID_WEEK_RANGE">>
    ELSE None

\* a slip: the week of today is counted from 0
resolve_week_index_from_zero(total_days, timezone_valid, request, today) ==
    LET max_week == get_semester_max_week(total_days)
    IN  IF Has(request, "week")
        THEN IF request.week < 1 \/ request.week > max_week
             THEN Raised("INVALID_WEEK_INDEX")
             ELSE Returned(<<request.week>>)
        ELSE IF ~timezone_valid THEN Raised("INVALID_TIMEZONE")
        ELSE IF 0 <= today /\ today <= total_days - 1
        THEN Returned(<<today \div 7>>)
        ELSE Returned(<<1>>)

\* a slip: today is not held against semester.end_date
resolve_week_index_past_end(total_days, timezone_valid, request, today) ==
    LET max_week == get_semester_max_week(total_days)
    IN  IF Has(request, "week")
        THEN IF request.week < 1 \/ request.week > max_week
             THEN Raised("INVALID_WEEK_INDEX")
             ELSE Returned(<<request.week>>)
        ELSE IF ~timezone_valid THEN Raised("INVALID_TIMEZONE")
        ELSE IF 0 <= today
        THEN Returned(<<(today \div 7) + 1>>)
        ELSE Returned(<<1>>)

\* today is the number of days from semester.start_date to today
resolve_week_index(total_days, timezone_valid, request, today) ==
    LET max_week == get_semester_max_week(total_days)
    IN  IF Has(request, "week")
        THEN IF request.week < 1 \/ request.week > max_week
             THEN Raised("INVALID_WEEK_INDEX")
             ELSE Returned(<<request.week>>)
        ELSE IF ~timezone_valid THEN Raised("INVALID_TIMEZONE")
        ELSE IF 0 <= today /\ today <= total_days - 1
        THEN Returned(<<(today \div 7) + 1>>)
        ELSE Returned(<<1>>)

\* a slip: the bounds of a weeks range are not held against max_week
parse_export_weeks_unbounded(request, total_days, timezone_valid, today) ==
    LET max_week == get_semester_max_week(total_days)
    IN  IF request.range = "term" THEN Returned(range_list(1, max_week))
        ELSE IF request.range = "week"
        THEN resolve_week_index(total_days, timezone_valid, request, today)
        ELSE IF validate_week_range(request, "EXPORT") # None
        THEN Raised(validate_week_range(request, "EXPORT"))
        ELSE IF ~Has(request, "start_week") \/ ~Has(request, "end_week")
        THEN Raised("INVALID_EXPORT_WEEK_RANGE")
        ELSE Returned(range_list(request.start_week, request.end_week))

parse_export_weeks(request, total_days, timezone_valid, today) ==
    LET max_week == get_semester_max_week(total_days)
    IN  IF request.range = "term" THEN Returned(range_list(1, max_week))
        ELSE IF request.range = "week"
        THEN resolve_week_index(total_days, timezone_valid, request, today)
        ELSE IF validate_week_range(request, "EXPORT") # None
        THEN Raised(validate_week_range(request, "EXPORT"))
        ELSE IF ~Has(request, "start_week") \/ ~Has(request, "end_week")
        THEN Raised("INVALID_EXPORT_WEEK_RANGE")
        ELSE IF request.start_week > max_week \/ request.end_week > max_week
        THEN Raised("INVALID_WEEK_INDEX")
        ELSE Returned(range_list(request.start_week, request.end_week))

\* str compares as the ranks of TIME_ORDER do: the items as detect_conflicts
\* compares them, and back
Ranked(its) ==
    [i \in DOMAIN its |->
        [its[i] EXCEPT !.start_time = str_rank(@), !.end_time = str_rank(@)]]

Unranked(its) ==
    [i \in DOMAIN its |->
        [its[i] EXCEPT !.start_time = TIME_ORDER[@], !.end_time = TIME_ORDER[@]]]

collect_export_items_for_week(request, rows, total_days, week) ==
    LET collected ==
            IF request.scope = "course"
            THEN collect_course_week_items(rows, request.scope_id, total_days, week)
            ELSE collect_semester_week_items(rows, total_days, week)
    IN  Unranked(detect_conflicts(Ranked(collected.items)))

\* a slip: the ics export keeps the skipped items too
keeps_item_ignoring_format(request, export_format, item) ==
    IF item.skip
    THEN request.skip_render_mode # "HIDE_SKIPPED"
    ELSE TRUE

\* the continue statements of the loop body
keeps_item(request, export_format, item) ==
    IF item.skip
    THEN IF export_format = "ics" THEN FALSE
         ELSE IF request.skip_render_mode = "HIDE_SKIPPED" THEN FALSE
         ELSE TRUE
    ELSE TRUE

with_render_state(item) ==
    item @@ ("render_state" :> IF item.skip THEN "SKIPPED_GRAY" ELSE "NORMAL")

\* the body of "for week in weeks" for one week: the items it appends
merge_week_items(request, export_format, week_items) ==
    LET Kept(item) == keeps_item(request, export_format, item)
        kept == SelectSeq(week_items, Kept)
    IN  [i \in DOMAIN kept |-> with_render_state(kept[i])]

\* a slip: every entry is dated in the first week
ical_event_in_first_week(semester_start, item) ==
    LET event_date == calendar_date(week_date(semester_start, 1, item.day_of_week))
    IN  [uid |-> uid(item.event_id, item.week),
         dtstart |-> combine(event_date, parse_time_value(item.start_time)),
         dtend |-> combine(event_date, parse_time_value(item.end_time))]

\* a slip: the uid leaves the week out
ical_event_uid_without_week(semester_start, item) ==
    LET event_date == calendar_date(week_date(semester_start, item.week, item.day_of_week))
    IN  [uid |-> uid(item.event_id, 0),
         dtstart |-> combine(event_date, parse_time_value(item.start_time)),
         dtend |-> combine(event_date, parse_time_value(item.end_time))]

\* the VEVENT added for one item: no rrule property is ever added
ical_event(semester_start, item) ==
    LET event_date == calendar_date(week_date(semester_start, item.week, item.day_of_week))
    IN  [uid |-> uid(item.event_id, item.week),
         dtstart |-> combine(event_date, parse_time_value(item.start_time)),
         dtend |-> combine(event_date, parse_time_value(item.end_time))]

(***************************************************************************)
(* ICS upload: create_semester_from_ics.  The tables are the committed     *)
(* rows; a session is the rows its transaction has flushed on top of them  *)
(* and the objects added but not flushed.  SessionLocal is made with       *)
(* autoflush=False, so a query sees the flushed rows only.                 *)
(***************************************************************************)
EmptyTables ==
    [semesters |-> <<>>, courses |-> <<>>, eventTypes |-> {}, sections |-> <<>>,
     events |-> <<>>]

\* section_id.isdigit() on the section ids of the model
validate_section_id(section_id) == section_id \in {"0101", "0201"}

\* the constraints of course_sections and course_events a flush or commit
\* checks: uq_course_sections_course_section, the foreign keys to the event
\* type and to the section, the week pattern check
TablesAccepted(tables) ==
    /\ \A i, j \in DOMAIN tables.sections :
           (/\ tables.sections[i].course_id = tables.sections[j].course_id
            /\ tables.sections[i].section_id = tables.sections[j].section_id) => i = j
    /\ \A i \in DOMAIN tables.sections :
           /\ <<tables.sections[i].course_id, tables.sections[i].event_type_code>>
                  \in tables.eventTypes
           /\ tables.sections[i].week_pattern \in WEEK_PATTERN_VALUES
    /\ \A i \in DOMAIN tables.events :
           /\ <<tables.events[i].course_id, tables.events[i].event_type_code>>
                  \in tables.eventTypes
           /\ tables.events[i].week_pattern \in WEEK_PATTERN_VALUES
           /\ tables.events[i].section_id # None =>
                  \E j \in DOMAIN tables.sections :
                      /\ tables.sections[j].course_id = tables.events[i].course_id
                      /\ tables.sections[j].section_id = tables.events[i].section_id

\* the rows the transaction holds once the added objects are written
Written(session) ==
    [session.flushed EXCEPT !.sections = @ \o session.sections,
                            !.events = @ \o session.events]

NewSession(tables) == [flushed |-> tables, sections |-> <<>>, events |-> <<>>]

\* db.flush()
flush(session) == NewSession(Written(session))

\* ensure_course_event_type_exists: a missing type is added and flushed
\* with everything added before it; after a failed flush the session is
\* rolled back, the type is not found and the HTTPException is raised
ensure_course_event_type_exists(session, course_id, event_type_code) ==
    IF <<course_id, event_type_code>> \in session.flushed.eventTypes
    THEN [raised |-> FALSE, session |-> session]
    ELSE LET added == [session EXCEPT !.flushed.eventTypes =
                                          @ \cup {<<course_id, event_type_code>>}]
         IN  IF TablesAccepted(Written(added))
             THEN [raised |-> FALSE, session |-> flush(added)]
             ELSE [raised |-> TRUE, session |-> session]

\* the body of "for meeting in meetings" of import_course_schedule_from_ics
import_meeting(session, course_id, item) ==
    LET event_type_code == IF strip(item.eventTypeCode) = "" THEN "LECTURE"
                           ELSE strip(item.eventTypeCode)
        ensured == ensure_course_event_type_exists(session, course_id, event_type_code)
        week_pattern == normalize_week_pattern(item.weekPattern)
        row == [course_id |-> course_id,
                event_type_code |-> event_type_code,
                day_of_week |-> item.dayOfWeek,
                start_time |-> item.startTime,
                end_time |-> item.endTime,
                week_pattern |-> week_pattern.value,
                start_week |-> item.startWeek,
                end_week |-> item.endWeek]
        existing_section ==
            {i \in DOMAIN ensured.session.flushed.sections :
                /\ ensured.session.flushed.sections[i].course_id = course_id
                /\ ensured.session.flushed.sections[i].section_id = item.sectionId}
        raise == [raised |-> TRUE, session |-> session]
    IN  IF ensured.raised THEN raise
        ELSE IF week_pattern.error # None THEN raise
        ELSE IF ~validate_day_of_week(item.dayOfWeek) THEN raise
        ELSE IF ~validate_time_range(item.startTime, item.endTime) THEN raise
        \* validate_week_range(start_week, end_week, "EVENT")
        ELSE IF item.startWeek < 1 \/ item.endWeek < 1 \/ item.startWeek > item.endWeek
        THEN raise
        ELSE IF item.sectionId = None
        THEN [raised |-> FALSE,
              session |-> [ensured.session EXCEPT !.events =
                              Append(@, row @@ ("section_id" :> None))]]
        ELSE IF ~validate_section_id(item.sectionId) THEN raise
        ELSE IF existing_section = {}
        \* validate_section_payload repeats the checks above
        THEN [raised |-> FALSE,
              session |-> [ensured.session EXCEPT
                              !.sections = Append(@, row @@ ("section_id" :> item.sectionId)),
                              !.events = Append(@, row @@ ("section_id" :> item.sectionId))]]
        ELSE LET existing == ensured.session.flushed.sections[CHOOSE i \in existing_section : TRUE]
             IN  [raised |-> FALSE,
                  session |-> [ensured.session EXCEPT !.events =
                                  Append(@, row @@ ("section_id" :>
                                      IF existing.event_type_code = event_type_code
                                      THEN item.sectionId ELSE None))]]

\* import_course_schedule_from_ics from the k-th meeting on
RECURSIVE import_course_schedule_from_ics(_, _, _, _)
import_course_schedule_from_ics(session, course_id, meetings, k) ==
    IF k > Len(meetings) THEN [raised |-> FALSE, session |-> session]
    ELSE LET one == import_meeting(session, course_id, meetings[k])
         IN  IF one.raised THEN one
             ELSE import_course_schedule_from_ics(one.session, course_id, meetings, k + 1)

\* crud.create_course, committed: the course and its builtin event types
created_course(tables, course_name) ==
    [tables EXCEPT !.courses = Append(@, course_name),
                   !.eventTypes = @ \cup {<<Len(tables.courses) + 1, code>> :
                                              code \in BUILTIN_EVENT_TYPE_CODES}]

\* one pass of "for parsed_course in parsed_courses": the import and the
\* commit are inside the try, whose except rolls the session back
upload_course(tables, parsed_course) ==
    LET with_course == created_course(tables, parsed_course.name)
        course_id == Len(with_course.courses)
        imported == import_course_schedule_from_ics(NewSession(with_course), course_id,
                                                    parsed_course.meetings, 1)
    IN  IF parsed_course.meetings = <<>> THEN with_course
        ELSE IF imported.raised THEN with_course
        \* db.commit()
        ELSE IF ~TablesAccepted(Written(imported.session)) THEN with_course
        ELSE Written(imported.session)

RECURSIVE upload_courses(_, _, _)
upload_courses(tables, parsed_courses, k) ==
    IF k > Len(parsed_courses) THEN tables
    ELSE upload_courses(upload_course(tables, parsed_courses[k]), parsed_courses, k + 1)

\* create_semester_from_ics on what parse_ics_schedule made of the file;
\* today is datetime.utcnow().date()
create_semester_from_ics(tables, parsed, today) ==
    IF parsed.outcome = "raised" THEN [status |-> 500, tables |-> tables]
    ELSE LET start_date == IF parsed.dated THEN parsed.semesterStartDate ELSE today
             end_date == IF parsed.dated THEN parsed.semesterEndDate ELSE start_date + 111
             semester == [start_date |-> start_date,
                          end_date |-> IF end_date < start_date THEN start_date
                                       ELSE end_date]
         IN  [status |-> 200,
              tables |-> upload_courses([tables EXCEPT !.semesters = Append(@, semester)],
                                        parsed.courses, 1)]

(***************************************************************************)
(* Data import: import_user_data on the programs of the user.  A program   *)
(* name is the list of its words; the semesters, courses, widgets and tabs *)
(* imported under a program are left out.                                  *)
(***************************************************************************)
\* str.lower() on the words of the model
lower_word(word) ==
    CASE word = "Plan" -> "plan"
      [] word = "Thesis" -> "thesis"
      [] OTHER -> word

\* name.lower()
lower(name) == [i \in DOMAIN name |-> lower_word(name[i])]

\* the text of "({suffix})", for the suffixes the programs of the model
\* can lead to
suffix_text(suffix) ==
    CASE suffix = 2 -> "(2)"
      [] suffix = 3 -> "(3)"
      [] suffix = 4 -> "(4)"
      [] suffix = 5 -> "(5)"
      [] suffix = 6 -> "(6)"
      [] suffix = 7 -> "(7)"
      [] suffix = 8 -> "(8)"
      [] suffix = 9 -> "(9)"

\* f"{program_data.name} ({suffix})"
suffixed(name, suffix) == Append(name, suffix_text(suffix))

\* {p.name.lower(): p for p in existing_programs}: the keys, and for a key
\* the last program of that name
NamesOf(rows) == {lower(rows[i].name) : i \in DOMAIN rows}

ProgramOf(rows, key) ==
    LET of_key == {i \in DOMAIN rows : lower(rows[i].name) = key}
    IN  [kind |-> "program", id |-> rows[Max(of_key)].id]

existing_names_of(rows) == [key \in NamesOf(rows) |-> ProgramOf(rows, key)]

\* existing_names[key] = True
WithTrue(existing_names, key) ==
    [k \in DOMAIN existing_names \cup {key} |->
        IF k = key THEN [kind |-> "True"] ELSE existing_names[k]]

\* crud.create_program under import_program_data: committed at once
import_program_data(db, program_name) ==
    [rows |-> Append(db.rows, [id |-> db.ids + 1, name |-> program_name]),
     ids |-> db.ids + 1]

\* crud.delete_program: nothing happens when no row has the id
delete_program(db, program_id) ==
    [db EXCEPT !.rows = SelectSeq(@, LAMBDA row : row.id # program_id)]

\* the while loop that looks for a free name
RECURSIVE unique_name(_, _, _)
unique_name(existing_names, name, suffix) ==
    IF lower(suffixed(name, suffix)) \in DOMAIN existing_names
    THEN unique_name(existing_names, name, suffix + 1)
    ELSE suffixed(name, suffix)

\* the overwrite branch: existing_names[name_lower] is a program, also one
\* deleted by an earlier pass, or True, which has no id (AttributeError)
overwrite(db, existing_names, name) ==
    IF existing_names[lower(name)].kind # "program"
    THEN [raised |-> TRUE, db |-> db]
    ELSE [raised |-> FALSE,
          db |-> import_program_data(delete_program(db, existing_names[lower(name)].id),
                                     name)]

\* "for program_data in data.programs" from the k-th program on
RECURSIVE import_programs(_, _, _, _, _)
import_programs(db, existing_names, conflict_mode, names, k) ==
    IF k > Len(names) THEN [status |-> 200, db |-> db]
    ELSE
    LET name == names[k]
        name_lower == lower(name)
    IN  IF name_lower \in DOMAIN existing_names
        THEN IF conflict_mode = "skip"
             THEN import_programs(db, existing_names, conflict_mode, names, k + 1)
             ELSE IF conflict_mode = "overwrite"
             THEN LET written == overwrite(db, existing_names, name)
                  IN  IF written.raised THEN [status |-> 500, db |-> written.db]
                      ELSE import_programs(written.db, existing_names, conflict_mode,
                                           names, k + 1)
             ELSE LET new_name == unique_name(existing_names, name, 2)
                  IN  import_programs(import_program_data(db, new_name),
                                      WithTrue(existing_names, lower(new_name)),
                                      conflict_mode, names, k + 1)
        ELSE import_programs(import_program_data(db, name),
                             WithTrue(existing_names, name_lower),
                             conflict_mode, names, k + 1)

\* import_user_data without the settings
import_user_data(db, conflict_mode, names) ==
    IF conflict_mode \notin {"skip", "overwrite", "rename"}
    THEN [status |-> 400, db |-> db]
    ELSE import_programs(db, existing_names_of(db.rows), conflict_mode, names, 1)

(***************************************************************************)
(* Spec: detect_conflicts on every bounded list of fresh occurrences.      *)
(* The callers hand it the list collect_*_week_items built; a second call  *)
(* on the annotated list is also modelled.                                 *)
(***************************************************************************)
\* crud.create_course: a new course holds the builtin event types
NewCourse ==
    [eventTypes |-> {[code |-> c, track_attendance |-> FALSE] : c \in BUILTIN_EVENT_TYPE_CODES},
     sections |-> NoKeys,
     events |-> NoKeys]

NoRequest == [op |-> None, status |-> 0, error |-> None, week_pattern |-> None]

StoreIdle ==
    /\ eventTypes = NewCourse.eventTypes
    /\ sections = NewCourse.sections
    /\ events = NewCourse.events
    /\ last = NoRequest

ExportIdle ==
    /\ export_request = NoKeys
    /\ export_weeks = <<>>
    /\ merged_items = <<>>
    /\ seen = <<>>
    /\ export_response = NoKeys
    /\ writes = 0

ExportQuiet ==
    /\ semester_start_date = 1
    /\ clock = [today |-> 0, timezone_valid |-> TRUE]
    /\ ExportIdle

DetectIdle ==
    /\ input = <<>>
    /\ items = <<>>
    /\ runs = 0

NoCall == [op |-> None, course_id |-> None]

NoResult == [items |-> <<>>, warnings |-> <<>>]

ResolveIdle ==
    /\ stored = <<>>
    /\ semester_days = 1
    /\ requested_week = 1
    /\ call = NoCall
    /\ resolved = NoResult

ImportIdle ==
    /\ occurrence_dates = {}
    /\ meeting = NoKeys
    /\ weekly_rule = NoKeys
    /\ expansion = NoKeys
    /\ components = <<>>
    /\ schedule = NoKeys

(***************************************************************************)
(* Widgets.  The caller is "me"; semester s1 is in a program of mine, s2   *)
(* in one of another user, and course c1 is a course of s1.                *)
(***************************************************************************)
SemesterOwner == [s1 |-> "me", s2 |-> "other"]

CourseSemester == [c1 |-> "s1"]

\* a slip: WidgetUpdate also declares is_removable
WidgetUpdate_with_is_removable(body) ==
    [key \in DOMAIN body \cap {"widget_type", "layout_config", "settings", "is_removable"}
        |-> body[key]]

\* schemas.WidgetUpdate(...).dict(exclude_unset=True): the declared fields the
\* body carries
WidgetUpdate(body) ==
    [key \in DOMAIN body \cap {"widget_type", "layout_config", "settings"} |-> body[key]]

\* schemas.WidgetCreate(...).dict(): the body with the defaults of WidgetBase
WidgetCreate(body) ==
    [widget_type |-> body.widget_type,
     layout_config |-> IF Has(body, "layout_config") THEN body.layout_config ELSE "{}",
     settings |-> IF Has(body, "settings") THEN body.settings ELSE "{}",
     is_removable |-> IF Has(body, "is_removable") THEN body.is_removable ELSE TRUE]

\* crud.create_widget: the table with the new row
create_widget(db, widget_id, widget, semester_id, course_id) ==
    db @@ (widget_id :> (widget @@ [semester_id |-> semester_id, course_id |-> course_id]))

\* a slip: the row is rebuilt from the payload and the defaults
update_widget_replacing(db, widget_id, widget_update) ==
    [db EXCEPT ![widget_id] =
        [key \in DOMAIN @ |->
            IF key \in DOMAIN widget_update THEN widget_update[key]
            ELSE IF key \in {"layout_config", "settings"} THEN "{}"
            ELSE @[key]]]

\* crud.update_widget on a row that exists
update_widget(db, widget_id, widget_update) ==
    [db EXCEPT ![widget_id] =
        [key \in DOMAIN @ |->
            IF key \in DOMAIN widget_update THEN widget_update[key] ELSE @[key]]]

\* crud.delete_widget
delete_widget(db, widget_id) == [k \in DOMAIN db \ {widget_id} |-> db[k]]

\* db_widget_sem or db_widget_course: the widget of that id in a semester or
\* a course of a program of the user, if any
owned_widget(db, created, widget_id, user) ==
    /\ widget_id \in DOMAIN db
    /\ \/ /\ db[widget_id].semester_id # None
          /\ db[widget_id].semester_id \in created
          /\ SemesterOwner[db[widget_id].semester_id] = user
       \/ /\ db[widget_id].course_id # None
          /\ CourseSemester[db[widget_id].course_id] \in created
          /\ SemesterOwner[CourseSemester[db[widget_id].course_id]] = user

WidgetIdle ==
    /\ semesters = {}
    /\ widgets = NoKeys
    /\ widget_ids = 0
    /\ widget_last = [op |-> None]

(***************************************************************************)
(* GPA aggregates of one program with the semesters s1 and s2.  A scaled   *)
(* grade is counted in tenths; a quotient a / b is kept as <<a, b>>.       *)
(***************************************************************************)
GpaSemesters == {"s1", "s2"}

\* logic.DEFAULT_SCALING_TABLE: the ranges in the order of the dict
DEFAULT_SCALING_TABLE ==
    <<[low |-> 90, high |-> 100, gpa |-> 40], [low |-> 85, high |-> 89, gpa |-> 40],
      [low |-> 80, high |-> 84, gpa |-> 37], [low |-> 77, high |-> 79, gpa |-> 33],
      [low |-> 73, high |-> 76, gpa |-> 30], [low |-> 70, high |-> 72, gpa |-> 27],
      [low |-> 67, high |-> 69, gpa |-> 23], [low |-> 63, high |-> 66, gpa |-> 20],
      [low |-> 60, high |-> 62, gpa |-> 17], [low |-> 57, high |-> 59, gpa |-> 13],
      [low |-> 53, high |-> 56, gpa |-> 10], [low |-> 50, high |-> 52, gpa |-> 7],
      [low |-> 0, high |-> 49, gpa |-> 0]>>

\* _parse_scaling_table on the texts of the model: <<>> stands for None
parse_scaling_table(raw_table) ==
    CASE raw_table = "{\"90-100\": 4.0, \"0-89\": 2.0}" ->
             <<[low |-> 90, high |-> 100, gpa |-> 40], [low |-> 0, high |-> 89, gpa |-> 20]>>
      [] OTHER -> <<>>

\* get_scaling_table for a program whose owner has no table of their own
get_scaling_table(program) ==
    IF parse_scaling_table(program.gpa_scaling_table) # <<>>
    THEN parse_scaling_table(program.gpa_scaling_table)
    ELSE DEFAULT_SCALING_TABLE

\* calculate_gpa on a table of ranges: the first range that holds the
\* percentage, 0.0 when none does
RECURSIVE calculate_gpa_from(_, _, _)
calculate_gpa_from(percentage, scaling_table, k) ==
    IF k > Len(scaling_table) THEN 0
    ELSE IF scaling_table[k].low <= percentage /\ percentage <= scaling_table[k].high
    THEN scaling_table[k].gpa
    ELSE calculate_gpa_from(percentage, scaling_table, k + 1)

calculate_gpa(percentage, scaling_table) == calculate_gpa_from(percentage, scaling_table, 1)

RECURSIVE Sum(_, _)
Sum(values, S) ==
    IF S = {} THEN 0
    ELSE LET x == CHOOSE x \in S : TRUE IN values[x] + Sum(values, S \ {x})

\* weighted_gpa_sum / total_credits over these courses, 0.0 without credits
weighted_mean(rows, counted) ==
    LET total_credits == Sum([c \in counted |-> rows[c].credits], counted)
        weighted_gpa_sum == Sum([c \in counted |-> rows[c].grade_scaled * rows[c].credits],
                                counted)
    IN  IF total_credits > 0 THEN <<weighted_gpa_sum, total_credits>> ELSE <<0, 1>>

\* semester.courses with include_in_gpa
counted_in(rows, semester_id) ==
    {c \in DOMAIN rows : rows[c].semester_id = semester_id /\ rows[c].include_in_gpa}

\* logic.update_program_stats
update_program_stats(db) ==
    [db EXCEPT !.program.cgpa_scaled =
        weighted_mean(db.courses,
                      UNION {counted_in(db.courses, s) : s \in GpaSemesters})]

\* logic.update_semester_stats, with the update of the program it ends in
update_semester_stats(db, semester_id) ==
    update_program_stats(
        [db EXCEPT !.average_scaled[semester_id] =
            weighted_mean(db.courses, counted_in(db.courses, semester_id))])

\* logic.update_course_stats for a course that is in a semester
update_course_stats(db, course_id) ==
    update_semester_stats(
        [db EXCEPT !.courses[course_id].grade_scaled =
            calculate_gpa(db.courses[course_id].grade_percentage,
                          get_scaling_table(db.program))],
        db.courses[course_id].semester_id)

\* the body of the loop of logic.recalculate_all_stats for one semester
recalculate_semester(db, semester_id) ==
    update_semester_stats(
        [db EXCEPT !.courses =
            [c \in DOMAIN db.courses |->
                IF db.courses[c].semester_id = semester_id
                THEN [db.courses[c] EXCEPT !.grade_scaled =
                         calculate_gpa(db.courses[c].grade_percentage,
                                       get_scaling_table(db.program))]
                ELSE db.courses[c]]],
        semester_id)

\* logic.recalculate_all_stats
recalculate_all_stats(db) ==
    update_program_stats(recalculate_semester(recalculate_semester(db, "s1"), "s2"))

\* crud.create_course
create_course(db, course_id, course, semester_id) ==
    LET added == [db EXCEPT !.courses =
                     db.courses @@ (course_id :> (course @@ [semester_id |-> semester_id]))]
    IN  IF semester_id # None THEN update_course_stats(added, course_id) ELSE added

\* crud.update_course on a course that exists
update_course(db, course_id, course_update) ==
    LET updated == [db EXCEPT !.courses[course_id] =
                       [key \in DOMAIN @ |->
                           IF key \in DOMAIN course_update THEN course_update[key]
                           ELSE @[key]]]
    IN  IF updated.courses[course_id].semester_id # None
        THEN update_course_stats(updated, course_id)
        ELSE updated

\* delete_course: db.delete(db_course); db.commit()
delete_course(db, course_id) ==
    [db EXCEPT !.courses = [c \in DOMAIN db.courses \ {course_id} |-> db.courses[c]]]

\* crud.update_program
update_program(db, program_update) ==
    recalculate_all_stats(
        [db EXCEPT !.program =
            [key \in DOMAIN @ |->
                IF key \in DOMAIN program_update THEN program_update[key] ELSE @[key]]])

\* schemas.CourseCreate(...).dict(): the body with the defaults of CourseBase
CourseCreate(body) ==
    [credits |-> IF Has(body, "credits") THEN body.credits ELSE 0,
     grade_percentage |-> IF Has(body, "grade_percentage") THEN body.grade_percentage ELSE 0,
     grade_scaled |-> IF Has(body, "grade_scaled") THEN body.grade_scaled ELSE 0,
     include_in_gpa |-> IF Has(body, "include_in_gpa") THEN body.include_in_gpa ELSE TRUE]

GpaDb == [courses |-> gpa_courses, average_scaled |-> gpa_averages, program |-> gpa_program]

GpaIdle ==
    /\ gpa_courses = NoKeys
    /\ gpa_course_ids = 0
    /\ gpa_averages = [s \in GpaSemesters |-> <<0, 1>>]
    /\ gpa_program = [cgpa_scaled |-> <<0, 1>>, gpa_scaling_table |-> None]

UploadIdle ==
    /\ ics_tables = EmptyTables
    /\ ics_response = NoKeys

DataIdle ==
    /\ user_programs = <<>>
    /\ program_ids = 0
    /\ import_last = [op |-> None]

AppIdle == WidgetIdle /\ GpaIdle /\ UploadIdle /\ DataIdle

OldIdle == StoreIdle /\ ExportQuiet /\ DetectIdle /\ ResolveIdle /\ ImportIdle

Init ==
    /\ AppIdle
    /\ StoreIdle
    /\ ExportQuiet
    /\ ResolveIdle
    /\ ImportIdle
    /\ \/ \E n \in 0..MaxMixed : input \in ListsOf(FreshItems, n)
       \/ \E n \in 0..MaxItems : input \in ListsOf(ActiveFreshItems, n)
    /\ items = input
    /\ runs = 0

DetectConflicts ==
    /\ runs < MaxRuns
    /\ items' = detect_conflicts(items)
    /\ runs' = runs + 1
    /\ UNCHANGED <<input, storeVars, resolveVars, importVars, exportVars, appVars>>

Next == DetectConflicts

Spec == Init /\ [][Next]_vars

(***************************************************************************)
(* SpecStore: the single requests that write the course's event types,     *)
(* sections and events, in any order.                                      *)
(***************************************************************************)
Db == [eventTypes |-> eventTypes, sections |-> sections, events |-> events]

\* commit (or the rollback a failure ends in) and the response
Respond(r, op, week_pattern) ==
    /\ r.status # 0
    /\ eventTypes' = r.db.eventTypes
    /\ sections' = r.db.sections
    /\ events' = r.db.events
    /\ last' = [op |-> op, status |-> r.status, error |-> r.error, week_pattern |-> week_pattern]
    /\ UNCHANGED <<detectVars, resolveVars, importVars, exportVars, appVars>>

\* a request body the schema refuses never reaches the handler
RequestValidationError(op, week_pattern) ==
    /\ last' = [op |-> op, status |-> 422, error |-> "RequestValidationError",
                week_pattern |-> week_pattern]
    /\ UNCHANGED <<eventTypes, sections, events, detectVars, resolveVars, importVars, exportVars, appVars>>

EventCreates ==
    [event_type_code : RawCodes, section_id : SectionIds \cup {None},
     week_pattern : RawWeekPatterns, skip : BOOLEAN]

EventUpdates ==
    {a @@ b @@ c @@ d :
        a \in Opt("event_type_code", {"lecture", "LECTURE"}),
        b \in Opt("section_id", SectionIds),
        c \in Opt("week_pattern", {"ALTERNATING"}),
        d \in Opt("skip", BOOLEAN)}

EventTypeUpdates ==
    {a @@ b : a \in Opt("code", RawCodes), b \in Opt("track_attendance", BOOLEAN)}

\* POST /courses/{course_id}/events
CreateCourseEvent ==
    \E payload \in EventCreates :
        IF SchemaAccepts(payload)
        THEN Respond(create_course_event_record(Db, payload), "create_course_event",
                     payload.week_pattern)
        ELSE RequestValidationError("create_course_event", payload.week_pattern)

\* PATCH /courses/{course_id}/events/{event_id}
UpdateCourseEvent ==
    \E event_id \in 1..MaxEvents, payload \in EventUpdates :
        IF SchemaAccepts(payload)
        THEN Respond(update_course_event_record(Db, event_id, payload), "update_course_event",
                     None)
        ELSE RequestValidationError("update_course_event", None)

\* DELETE /courses/{course_id}/events/{event_id}
DeleteCourseEvent ==
    \E event_id \in 1..MaxEvents :
        Respond(delete_course_event_record(Db, event_id), "delete_course_event", None)

\* the items batch requests are made of
BatchItems ==
    {[op |-> "create", event_id |-> 0,
      data |-> [event_type_code |-> "lecture", section_id |-> None, week_pattern |-> wp,
                skip |-> TRUE]] :
        wp \in {"EVERY", "ALTERNATING"}}
    \cup
    {[op |-> "update", event_id |-> id, data |-> "event_type_code" :> "lecture"] :
        id \in 1..MaxEvents}
    \cup
    {[op |-> "delete", event_id |-> id, data |-> NoKeys] : id \in 1..MaxEvents}

\* POST /courses/{course_id}/events/batch; the request is kept next to its
\* answer, for the properties that hold the two against each other
BatchCourseEvents ==
    \E atomic \in BOOLEAN, n \in 1..MaxBatch :
        \E batch \in [1..n -> BatchItems] :
            LET r == batch_course_events(Db, Db, atomic, batch, 1, 0, 0)
            IN  /\ r.status # 0
                /\ eventTypes' = r.db.eventTypes
                /\ sections' = r.db.sections
                /\ events' = r.db.events
                /\ last' = [op |-> "batch_course_events", status |-> r.status,
                            error |-> r.error, week_pattern |-> None,
                            atomic |-> atomic, items |-> batch,
                            failed_index |-> r.failed_index]
                /\ UNCHANGED <<detectVars, resolveVars, importVars, exportVars, appVars>>

\* POST /courses/{course_id}/event-types
CreateCourseEventType ==
    \E code \in RawCodes, track_attendance \in BOOLEAN :
        Respond(create_course_event_type(Db, code, track_attendance),
                "create_course_event_type", None)

\* PATCH /courses/{course_id}/event-types/{event_type_code}
UpdateCourseEventType ==
    \E event_type_code \in RawCodes,
       update_data \in EventTypeUpdates :
        Respond(update_course_event_type(Db, event_type_code, update_data),
                "update_course_event_type", None)

\* GET /courses/{course_id}/event-types
GetCourseEventTypes ==
    Respond(Success(ensure_builtin_event_types_for_course(Db), None),
            "get_course_event_types", None)

\* POST /courses/{course_id}/sections
CreateCourseSection ==
    \E section_id \in SectionIds, code \in RawCodes, week_pattern \in RawWeekPatterns :
        IF week_pattern \in SchemaWeekPattern
        THEN Respond(create_course_section(Db, section_id, code, week_pattern),
                     "create_course_section", week_pattern)
        ELSE RequestValidationError("create_course_section", week_pattern)

InitStore ==
    /\ AppIdle
    /\ StoreIdle
    /\ ExportQuiet
    /\ DetectIdle
    /\ ResolveIdle
    /\ ImportIdle

NextStore ==
    \/ CreateCourseEvent
    \/ UpdateCourseEvent
    \/ DeleteCourseEvent
    \/ CreateCourseEventType
    \/ UpdateCourseEventType
    \/ GetCourseEventTypes
    \/ CreateCourseSection

SpecStore == InitStore /\ [][NextStore]_vars

(***************************************************************************)
(* SpecBatch: batch requests on a course whose event types change, each    *)
(* answer kept together with its request.                                  *)
(***************************************************************************)
NextBatch ==
    \/ BatchCourseEvents
    \/ CreateCourseEventType
    \/ DeleteCourseEvent

SpecBatch == InitStore /\ [][NextBatch]_vars

(***************************************************************************)
(* SpecResolve: one call of a collector on the stored rows of a semester.  *)
(* The rows are whatever the tables may hold, rows written before the      *)
(* validation existed and rows rewritten by                                *)
(* migrate_week_pattern_to_alternating included; the week is one           *)
(* resolve_week_index or parse_export_weeks lets through.                  *)
(***************************************************************************)
TimePairs(times) == times \X times

RowBodies(pairs, days, patterns, starts, ends, enables, skips, courses) ==
    {[course_id |-> c, day_of_week |-> d, start_time |-> p[1], end_time |-> p[2],
      week_pattern |-> wp, start_week |-> s, enable |-> en, skip |-> sk] @@ e :
        c \in courses, d \in days, p \in pairs, wp \in patterns, s \in starts,
        e \in Opt("end_week", ends), en \in enables, sk \in skips}

\* every combination of the column values of the model
AnyRows ==
    RowBodies(TimePairs(StoredTimes), {1, 7, 8}, {"EVERY", "ALTERNATING", "ODD"},
              {0, 1, 2, 4}, {0, 2, 3}, BOOLEAN, {FALSE}, {"c1"})

\* rows of two courses, sound or not
PairRows ==
    RowBodies({<<"09:00", "10:00">>, <<"10:00", "09:00">>, <<"09:00", "late">>},
              {1, 8}, {"EVERY", "ALTERNATING"}, {1, 3}, {2}, {TRUE}, {FALSE}, CourseIds)

\* EVERY rows of one course, sound or not
PlainRows ==
    RowBodies({<<"09:00", "10:00">>, <<"09:00", "late">>},
              {1}, {"EVERY"}, {1, 3}, {2}, {TRUE}, BOOLEAN, {"c1"})

\* the rows in the order the query returns them, each with its own id
Numbered(bodies) == [i \in DOMAIN bodies |-> bodies[i] @@ ("id" :> EventId(i))]

SemesterLengths == {d \in 1..MaxSemesterDays : d % 7 \in {0, 1}}

InitResolve ==
    /\ AppIdle
    /\ StoreIdle
    /\ ExportQuiet
    /\ DetectIdle
    /\ ImportIdle
    /\ \/ \E n \in 0..MaxAnyRows : \E bodies \in ListsOf(AnyRows, n) : stored = Numbered(bodies)
       \/ \E n \in 0..MaxPairRows : \E bodies \in ListsOf(PairRows, n) : stored = Numbered(bodies)
       \/ \E n \in 0..MaxRows : \E bodies \in ListsOf(PlainRows, n) : stored = Numbered(bodies)
    /\ semester_days \in SemesterLengths
    /\ requested_week \in 1..get_semester_max_week(semester_days)
    /\ call = NoCall
    /\ resolved = NoResult

CollectSemesterWeekItems ==
    /\ call = NoCall
    /\ resolved' = collect_semester_week_items(stored, semester_days, requested_week)
    /\ call' = [op |-> "collect_semester_week_items", course_id |-> None]
    /\ UNCHANGED <<stored, semester_days, requested_week, detectVars, storeVars, importVars, exportVars, appVars>>

CollectCourseWeekItems ==
    /\ call = NoCall
    /\ \E course_id \in CourseIds :
        /\ resolved' = collect_course_week_items(stored, course_id, semester_days, requested_week)
        /\ call' = [op |-> "collect_course_week_items", course_id |-> course_id]
    /\ UNCHANGED <<stored, semester_days, requested_week, detectVars, storeVars, importVars, exportVars, appVars>>

NextResolve ==
    \/ CollectSemesterWeekItems
    \/ CollectCourseWeekItems

SpecResolve == InitResolve /\ [][NextResolve]_vars

(***************************************************************************)
(* SpecImport: parse_ics_schedule on the occurrences of one meeting key.   *)
(* Dates are days since the semester start the parser computed; the        *)
(* occurrences of one key fall on one weekday.                             *)
(***************************************************************************)
InitImport ==
    /\ AppIdle
    /\ StoreIdle
    /\ ExportQuiet
    /\ DetectIdle
    /\ ResolveIdle
    /\ \E first \in 0..MaxFirstDay :
        \E ks \in (SUBSET (0..MaxSpanWeeks)) \ {{}} :
            occurrence_dates = {first + 7 * k : k \in ks}
    /\ meeting = NoKeys
    /\ weekly_rule = NoKeys
    /\ expansion = NoKeys
    /\ components = <<>>
    /\ schedule = NoKeys

ParseIcsSchedule ==
    /\ meeting = NoKeys
    /\ meeting' = parse_ics_schedule(occurrence_dates)
    /\ UNCHANGED <<occurrence_dates, weekly_rule, expansion, components, schedule,
                   detectVars, storeVars, resolveVars, exportVars, appVars>>

NextImport == ParseIcsSchedule

SpecImport == InitImport /\ [][NextImport]_vars

(***************************************************************************)
(* SpecExport: one export request, a step per week of its loop, and the    *)
(* event writes other requests commit meanwhile (the handlers run in the   *)
(* thread pool; every week of the loop queries the tables again).          *)
(***************************************************************************)
\* rows of two courses in the same slot of Tuesday or Sunday
ExportRows ==
    RowBodies({<<"10:00", "11:00">>}, {2, 7}, {"EVERY", "ALTERNATING"}, {1}, {},
              {TRUE}, BOOLEAN, CourseIds)

\* the rows another request creates
WrittenRows ==
    RowBodies({<<"10:00", "11:00">>}, {2}, {"EVERY"}, {1}, {}, {TRUE}, BOOLEAN, {"c1"})

\* start_date as a day of 2026 (5: Monday January 5th, 28: Wednesday
\* January 28th) and the inclusive length in days
Semesters == {[start_date |-> 5, total_days |-> 35], [start_date |-> 28, total_days |-> 14]}

\* ScheduleExportRequest bodies: the term, weeks 1..2, the current week
ExportRequests ==
    {[scope |-> sc[1], scope_id |-> sc[2], skip_render_mode |-> mode] @@ r :
        sc \in {<<"semester", "s1">>, <<"course", "c1">>},
        mode \in {"HIDE_SKIPPED", "GRAY_SKIPPED"},
        r \in {"range" :> "term",
               "range" :> "week",
               [range |-> "weeks", start_week |-> 1, end_week |-> 2]}}

InitExport ==
    /\ AppIdle
    /\ StoreIdle
    /\ DetectIdle
    /\ ImportIdle
    /\ \E n \in 0..MaxExportRows : \E bodies \in ListsOf(ExportRows, n) :
        stored = Numbered(bodies)
    /\ \E semester \in Semesters :
        /\ semester_start_date = semester.start_date
        /\ semester_days = semester.total_days
    /\ requested_week = 1
    /\ call = NoCall
    /\ resolved = NoResult
    /\ clock = [today |-> 0, timezone_valid |-> TRUE]
    /\ ExportIdle

Exporting ==
    /\ export_request # NoKeys
    /\ export_response = NoKeys

\* build_export_payload up to the loop
BeginExport(export_format) ==
    /\ export_request = NoKeys
    /\ \E request \in ExportRequests :
        LET parsed == parse_export_weeks(request, semester_days, clock.timezone_valid,
                                         clock.today)
        IN  /\ export_request' = request @@ ("format" :> export_format)
            /\ export_weeks' = parsed.weeks
            /\ export_response' =
                IF parsed.status = 200 THEN NoKeys
                ELSE [status |-> parsed.status, error |-> parsed.error]
    /\ UNCHANGED <<merged_items, seen, writes, semester_start_date,
                   detectVars, storeVars, resolveVars, importVars, clock, appVars>>

ExportSchedulePng == BeginExport("png")

ExportSchedulePdf == BeginExport("pdf")

ExportScheduleIcs == BeginExport("ics")

\* one iteration of "for week in weeks"
ExportWeek ==
    /\ Exporting
    /\ Len(seen) < Len(export_weeks)
    /\ LET week == export_weeks[Len(seen) + 1]
           week_items == collect_export_items_for_week(export_request, stored,
                                                       semester_days, week)
       IN  merged_items' =
               merged_items \o merge_week_items(export_request, export_request.format,
                                                week_items)
    /\ seen' = Append(seen, stored)
    /\ UNCHANGED <<export_request, export_weeks, export_response, writes,
                   semester_start_date, detectVars, storeVars, resolveVars, importVars, clock, appVars>>

\* the serialization after the loop: the VEVENTs of the calendar, or the
\* items of the JSON body
RespondExport ==
    /\ Exporting
    /\ Len(seen) = Len(export_weeks)
    /\ export_response' =
        IF export_request.format = "ics"
        THEN [status |-> 200,
              components |-> [i \in DOMAIN merged_items |->
                                 ical_event(semester_start_date, merged_items[i])]]
        ELSE [status |-> 200, weeks |-> export_weeks, items |-> merged_items]
    /\ UNCHANGED <<export_request, export_weeks, merged_items, seen, writes,
                   semester_start_date, detectVars, storeVars, resolveVars, importVars, clock, appVars>>

\* a create, delete or update of an event another request commits while the
\* export runs.  An update the session of the export does not see (the row
\* is still in its identity map) leaves the export as if not yet committed.
CommitEventWrite ==
    /\ Exporting
    /\ writes < MaxWrites
    /\ \/ \E body \in WrittenRows :
            stored' = Append(stored, body @@ ("id" :> EventId(MaxExportRows + writes + 1)))
       \/ \E i \in DOMAIN stored :
            stored' = SubSeq(stored, 1, i - 1) \o SubSeq(stored, i + 1, Len(stored))
       \/ \E i \in DOMAIN stored :
            stored' = [stored EXCEPT ![i] = [@ EXCEPT !.skip = ~@]]
    /\ writes' = writes + 1
    /\ UNCHANGED <<export_request, export_weeks, export_response, merged_items, seen,
                   semester_start_date, semester_days, requested_week, call,
                   resolved, detectVars, storeVars, importVars, clock, appVars>>

NextExport ==
    \/ ExportSchedulePng
    \/ ExportSchedulePdf
    \/ ExportScheduleIcs
    \/ ExportWeek
    \/ RespondExport
    \/ CommitEventWrite

SpecExport == InitExport /\ [][NextExport]_vars

(***************************************************************************)
(* SpecWeeks: parse_export_weeks on every bounded request, semester        *)
(* length, date of today and program timezone.                             *)
(***************************************************************************)
WeekValues == 0..(get_semester_max_week(MaxSemesterDays) + 1)

WeekRequests ==
    {("range" :> r) @@ w @@ s @@ e :
        r \in {"week", "weeks", "term"}, w \in Opt("week", WeekValues),
        s \in Opt("start_week", WeekValues), e \in Opt("end_week", WeekValues)}

InitWeeks ==
    /\ AppIdle
    /\ StoreIdle
    /\ DetectIdle
    /\ ImportIdle
    /\ stored = <<>>
    /\ semester_days \in SemesterLengths
    /\ requested_week = 1
    /\ call = NoCall
    /\ resolved = NoResult
    /\ semester_start_date = 1
    /\ clock \in [today : (0 - 1)..MaxSemesterDays, timezone_valid : BOOLEAN]
    /\ ExportIdle

ParseExportWeeks ==
    /\ export_request = NoKeys
    /\ \E request \in WeekRequests :
        LET parsed == parse_export_weeks(request, semester_days, clock.timezone_valid,
                                         clock.today)
        IN  /\ export_request' = request
            /\ export_weeks' = parsed.weeks
            /\ export_response' = [status |-> parsed.status, error |-> parsed.error]
    /\ UNCHANGED <<merged_items, seen, writes, semester_start_date,
                   detectVars, storeVars, resolveVars, importVars, clock, appVars>>

NextWeeks == ParseExportWeeks

SpecWeeks == InitWeeks /\ [][NextWeeks]_vars

(***************************************************************************)
(* SpecExpand: _expand_occurrence_dates on bounded rules, with end dates   *)
(* near the start and beyond what 128 weeks reach.                         *)
(***************************************************************************)
\* first days: a Monday, a Wednesday, a Sunday
ExpandStarts == {0, 2, 6}

\* days from the start date to the end date
ExpandSpans ==
    (0..MaxSpanDays) \cup {7 * EXPANSION_GUARD - 8 + d : d \in 0..MaxSpanDays}
        \cup {7 * 2 * EXPANSION_GUARD + d : d \in 0..MaxSpanDays}

ExpandBydays == {<<>>, <<1>>, <<1, 3>>, <<3, 7>>, <<1, 2, 3, 4, 5, 6, 7>>}

ExpandCounts == {1, 3, EXPANSION_GUARD + 1, 2 * EXPANSION_GUARD + 1}

ExpandRules ==
    {[start_date |-> s, end_date |-> s + span, interval |-> n, byday_days |-> b] @@ c :
        s \in ExpandStarts, span \in ExpandSpans, n \in 1..MaxInterval,
        b \in ExpandBydays, c \in Opt("count", ExpandCounts)}

\* a DTSTART, DTEND or UNTIL that is a date, or a date and a time
DateOnly(d) == [kind |-> "date", date |-> d]

DateTime(d, h, zoned) == [kind |-> "datetime", date |-> d, hour |-> h, aware |-> zoned]

\* RRULEs with a COUNT and no UNTIL
CountedRrules ==
    {[FREQ |-> "WEEKLY", BYDAY |-> b, COUNT |-> c] @@ n :
        b \in {<<>>, <<"MO">>, <<"WE", "MO">>, <<"MO", "TU", "WE", "TH", "FR", "SA", "SU">>},
        c \in ExpandCounts, n \in Opt("INTERVAL", 1..MaxInterval)}

CountedComponents ==
    {[dtstart |-> DateTime(s, 10, FALSE), rrule |-> r] : s \in ExpandStarts, r \in CountedRrules}

\* the rule is given as such, or is what _parse_weekly_recurrence makes of
\* the RRULE of a component
InitExpand ==
    /\ AppIdle
    /\ StoreIdle
    /\ ExportQuiet
    /\ DetectIdle
    /\ ResolveIdle
    /\ occurrence_dates = {}
    /\ meeting = NoKeys
    /\ schedule = NoKeys
    /\ \/ /\ components = <<>>
          /\ weekly_rule \in ExpandRules
       \/ /\ components \in {<<component>> : component \in CountedComponents}
          /\ weekly_rule = parse_weekly_recurrence(components[1],
                                                   date_value(components[1].dtstart))
    /\ expansion = NoKeys

ExpandOccurrenceDates ==
    /\ expansion = NoKeys
    /\ expansion' = expand_occurrence_dates(weekly_rule)
    /\ UNCHANGED <<weekly_rule, occurrence_dates, meeting, components, schedule,
                   detectVars, storeVars, resolveVars, exportVars, appVars>>

NextExpand == ExpandOccurrenceDates

SpecExpand == InitExpand /\ [][NextExpand]_vars

(***************************************************************************)
(* SpecParse: parse_ics_schedule on calendars of a few VEVENTs, sound ones *)
(* and ones whose DTSTART or DTEND is missing, undecodable, date-only, not *)
(* in order, or mixes a floating and a zoned time.                         *)
(***************************************************************************)
\* first dates: two Mondays and a Wednesday
ParseDates == {0, 2, 7}

Missing == [kind |-> "missing"]

Undecodable == [kind |-> "undecodable"]

\* a class from 10:00 to 11:00
SoundTimes ==
    {[dtstart |-> DateTime(d, 10, zoned), dtend |-> DateTime(d, 11, zoned)] :
        d \in ParseDates, zoned \in BOOLEAN}

UnsoundTimes ==
    {[dtstart |-> Missing, dtend |-> DateTime(0, 11, FALSE)],
     [dtstart |-> DateTime(0, 10, FALSE), dtend |-> Missing],
     [dtstart |-> Undecodable, dtend |-> DateTime(0, 11, FALSE)],
     [dtstart |-> DateTime(0, 10, FALSE), dtend |-> Undecodable],
     [dtstart |-> DateOnly(0), dtend |-> DateTime(0, 11, FALSE)],
     [dtstart |-> DateTime(2, 10, FALSE), dtend |-> DateOnly(3)],
     [dtstart |-> DateTime(0, 10, FALSE), dtend |-> DateTime(0, 10, FALSE)],
     [dtstart |-> DateTime(2, 10, FALSE), dtend |-> DateTime(2, 9, FALSE)],
     [dtstart |-> DateTime(2, 10, TRUE), dtend |-> DateTime(0, 11, TRUE)],
     [dtstart |-> DateTime(0, 10, FALSE), dtend |-> DateTime(0, 11, TRUE)],
     [dtstart |-> DateTime(0, 10, TRUE), dtend |-> DateTime(0, 11, FALSE)]}
        \cup {[dtstart |-> DateOnly(d), dtend |-> DateOnly(d + 1)] : d \in ParseDates}

\* days from DTSTART to UNTIL: around ten weeks
UntilSpans == {63, 65, 68, 69, 70}

\* the RRULEs tried on a VEVENT that starts on start_date
ParseRules(start_date) ==
    {NoKeys,
     [FREQ |-> "DAILY", BYDAY |-> <<>>],
     [FREQ |-> "WEEKLY", BYDAY |-> <<>>, COUNT |-> 3],
     [FREQ |-> "WEEKLY", BYDAY |-> <<"XX">>, INTERVAL |-> 2]}
        \cup {[FREQ |-> "WEEKLY", BYDAY |-> <<"WE", "MO">>, INTERVAL |-> 1,
               UNTIL |-> DateOnly(start_date + span)] : span \in UntilSpans}

Summaries == {"CSC108 LEC0101", "MAT137 TUT0201"}

UnusableSummaries == {"", "LEC0101"}

Components ==
    {times @@ [summary |-> summary, rrule |-> rrule] :
        times \in SoundTimes, summary \in Summaries, rrule \in ParseRules(0)}
    \cup {times @@ [summary |-> summary, rrule |-> rrule] :
        times \in {t \in SoundTimes : t.dtstart.date = 2}, summary \in Summaries,
        rrule \in ParseRules(2)}
    \cup {times @@ [summary |-> summary, rrule |-> NoKeys] :
        times \in SoundTimes, summary \in UnusableSummaries}
    \cup {times @@ [summary |-> "CSC108 LEC0101", rrule |-> rrule] :
        times \in UnsoundTimes,
        rrule \in {NoKeys, [FREQ |-> "WEEKLY", BYDAY |-> <<>>, COUNT |-> 3]}}

InitParse ==
    /\ AppIdle
    /\ StoreIdle
    /\ ExportQuiet
    /\ DetectIdle
    /\ ResolveIdle
    /\ occurrence_dates = {}
    /\ meeting = NoKeys
    /\ weekly_rule = NoKeys
    /\ expansion = NoKeys
    /\ \E n \in 1..MaxComponents : components \in [1..n -> Components]
    /\ schedule = NoKeys

ParseIcsCalendar ==
    /\ schedule = NoKeys
    /\ schedule' = parse_ics_calendar(components)
    /\ UNCHANGED <<components, occurrence_dates, meeting, weekly_rule, expansion,
                   detectVars, storeVars, resolveVars, exportVars, appVars>>

NextParse == ParseIcsCalendar

SpecParse == InitParse /\ [][NextParse]_vars

(***************************************************************************)
(* SpecUpload: one upload of a calendar of a few VEVENTs.                  *)
(***************************************************************************)
\* datetime.utcnow().date(), for a file without a dated entry
UploadDays == {0, 3}

\* the VEVENTs of the uploaded calendars: naive times, no rule, a counted
\* rule or a rule of every second week, and the unreadable ones
UploadComponents ==
    {c \in Components :
        /\ c.rrule \in {NoKeys,
                        [FREQ |-> "WEEKLY", BYDAY |-> <<>>, COUNT |-> 3],
                        [FREQ |-> "WEEKLY", BYDAY |-> <<"XX">>, INTERVAL |-> 2]}
        /\ c.dtstart \in {DateTime(d, 10, FALSE) : d \in ParseDates} \cup {Missing}
        /\ c.dtend \in {DateTime(d, 11, FALSE) : d \in ParseDates}}

InitUpload ==
    /\ AppIdle
    /\ StoreIdle
    /\ ExportQuiet
    /\ DetectIdle
    /\ ResolveIdle
    /\ occurrence_dates = {}
    /\ meeting = NoKeys
    /\ weekly_rule = NoKeys
    /\ expansion = NoKeys
    /\ \E n \in 1..MaxComponents : components \in [1..n -> UploadComponents]
    /\ schedule = NoKeys

\* the commits of the request and its response
UploadAnswered(r) ==
    /\ ics_tables' = r.tables
    /\ ics_response' = [status |-> r.status]

\* POST /programs/{program_id}/semesters/upload
CreateSemesterFromIcs ==
    /\ ics_response = NoKeys
    /\ schedule' = parse_ics_calendar(components)
    /\ \E today \in UploadDays :
        UploadAnswered(create_semester_from_ics(ics_tables, schedule', today))
    /\ UNCHANGED <<components, occurrence_dates, meeting, weekly_rule, expansion,
                   detectVars, storeVars, resolveVars, exportVars, widgetVars, gpaVars,
                   dataVars>>

NextUpload == CreateSemesterFromIcs

SpecUpload == InitUpload /\ [][NextUpload]_vars

(***************************************************************************)
(* SpecData: imports of user data, one after the other, on the programs of *)
(* a user who has none, one or two of them.                                *)
(***************************************************************************)
ProgramNames == {<<"Plan">>, <<"plan">>, <<"Plan", "(2)">>}

ConflictModes == {"skip", "overwrite", "rename", "merge"}

\* the names of the data.programs of a request
ImportedNames == UNION {[1..n -> ProgramNames] : n \in 1..MaxImported}

\* the programs of the user before the first import: pairwise distinct
\* names, ignoring case
InitialPrograms ==
    {<<>>,
     <<[id |-> 1, name |-> <<"Plan">>]>>,
     <<[id |-> 1, name |-> <<"Plan">>], [id |-> 2, name |-> <<"Plan", "(2)">>]>>,
     <<[id |-> 1, name |-> <<"thesis">>], [id |-> 2, name |-> <<"plan">>]>>}

InitData ==
    /\ OldIdle
    /\ WidgetIdle
    /\ GpaIdle
    /\ UploadIdle
    /\ user_programs \in InitialPrograms
    /\ program_ids = Len(user_programs)
    /\ import_last = [op |-> None]

\* POST /users/me/import
ImportUserData ==
    \E conflict_mode \in ConflictModes, names \in ImportedNames :
        LET r == import_user_data([rows |-> user_programs, ids |-> program_ids],
                                  conflict_mode, names)
        IN  /\ r.db.ids <= MaxProgramIds
            /\ user_programs' = r.db.rows
            /\ program_ids' = r.db.ids
            /\ import_last' = [op |-> "import_user_data", conflict_mode |-> conflict_mode,
                               names |-> names, status |-> r.status]
            /\ UNCHANGED <<notDataVars>>

NextData == ImportUserData

SpecData == InitData /\ [][NextData]_vars

(***************************************************************************)
(* SpecWidget: the semesters are created, widgets are created, updated and *)
(* deleted by me.                                                          *)
(***************************************************************************)
WidgetCreateBodies ==
    {[widget_type |-> "counter"] @@ a @@ b :
        a \in Opt("layout_config", {"L"}), b \in Opt("is_removable", BOOLEAN)}

WidgetUpdateBodies ==
    {a @@ b @@ c @@ d :
        a \in Opt("widget_type", {"counter", None}), b \in Opt("layout_config", {"L"}),
        c \in Opt("settings", {"S"}), d \in Opt("is_removable", {TRUE})}

InitWidget ==
    /\ OldIdle
    /\ WidgetIdle
    /\ GpaIdle
    /\ UploadIdle
    /\ DataIdle

\* crud.create_semester for a program of its owner: the semester and its
\* default course-list widget
CreateSemester ==
    /\ widget_ids < MaxWidgets
    /\ \E semester_id \in DOMAIN SemesterOwner \ semesters :
        /\ semesters' = semesters \cup {semester_id}
        /\ widgets' = create_widget(widgets, widget_ids + 1,
                          WidgetCreate([widget_type |-> "course-list",
                                        is_removable |-> FALSE]),
                          semester_id, None)
        /\ widget_last' = [op |-> "create_semester", widget_id |-> widget_ids + 1,
                           status |-> 200]
    /\ widget_ids' = widget_ids + 1
    /\ UNCHANGED <<notWidgetVars>>

CreateWidgetForSemester ==
    \E semester_id \in DOMAIN SemesterOwner, body \in WidgetCreateBodies :
        IF semester_id \in semesters /\ SemesterOwner[semester_id] = "me"
        THEN /\ widget_ids < MaxWidgets
             /\ widgets' = create_widget(widgets, widget_ids + 1, WidgetCreate(body),
                                         semester_id, None)
             /\ widget_ids' = widget_ids + 1
             /\ widget_last' = [op |-> "create", widget_id |-> widget_ids + 1,
                                status |-> 200]
             /\ UNCHANGED <<semesters, notWidgetVars>>
        ELSE /\ widget_last' = [op |-> "create", widget_id |-> 0, status |-> 404]
             /\ UNCHANGED <<semesters, widgets, widget_ids, notWidgetVars>>

CreateWidgetForCourse ==
    \E course_id \in DOMAIN CourseSemester, body \in WidgetCreateBodies :
        IF CourseSemester[course_id] \in semesters
              /\ SemesterOwner[CourseSemester[course_id]] = "me"
        THEN /\ widget_ids < MaxWidgets
             /\ widgets' = create_widget(widgets, widget_ids + 1, WidgetCreate(body),
                                         None, course_id)
             /\ widget_ids' = widget_ids + 1
             /\ widget_last' = [op |-> "create", widget_id |-> widget_ids + 1,
                                status |-> 200]
             /\ UNCHANGED <<semesters, notWidgetVars>>
        ELSE /\ widget_last' = [op |-> "create", widget_id |-> 0, status |-> 404]
             /\ UNCHANGED <<semesters, widgets, widget_ids, notWidgetVars>>

\* PUT /widgets/{widget_id}
UpdateWidget ==
    \E widget_id \in 1..MaxWidgets, body \in WidgetUpdateBodies :
        /\ IF owned_widget(widgets, semesters, widget_id, "me")
           THEN /\ widgets' = update_widget(widgets, widget_id, WidgetUpdate(body))
                /\ widget_last' = [op |-> "update", widget_id |-> widget_id,
                                   body |-> body, status |-> 200]
           ELSE /\ widget_last' = [op |-> "update", widget_id |-> widget_id,
                                   body |-> body, status |-> 404]
                /\ UNCHANGED widgets
        /\ UNCHANGED <<semesters, widget_ids, notWidgetVars>>

\* DELETE /widgets/{widget_id}
DeleteWidget ==
    \E widget_id \in 1..MaxWidgets :
        /\ IF ~owned_widget(widgets, semesters, widget_id, "me")
           THEN /\ widget_last' = [op |-> "delete", widget_id |-> widget_id,
                                   status |-> 404]
                /\ UNCHANGED widgets
           ELSE IF widgets[widget_id].is_removable = FALSE
           THEN /\ widget_last' = [op |-> "delete", widget_id |-> widget_id,
                                   status |-> 400]
                /\ UNCHANGED widgets
           ELSE /\ widgets' = delete_widget(widgets, widget_id)
                /\ widget_last' = [op |-> "delete", widget_id |-> widget_id,
                                   status |-> 200]
        /\ UNCHANGED <<semesters, widget_ids, notWidgetVars>>

NextWidget ==
    \/ CreateSemester
    \/ CreateWidgetForSemester
    \/ CreateWidgetForCourse
    \/ UpdateWidget
    \/ DeleteWidget

SpecWidget == InitWidget /\ [][NextWidget]_vars

(***************************************************************************)
(* SpecGpa: courses of one program are created, updated, moved and deleted *)
(* and the program is updated.                                             *)
(***************************************************************************)
CourseCreateBodies ==
    {a @@ b @@ c :
        a \in Opt("credits", {1}), b \in Opt("grade_percentage", {95}),
        c \in Opt("include_in_gpa", {FALSE})}

CourseUpdateBodies ==
    {a @@ b @@ d :
        a \in Opt("credits", {2}), b \in Opt("grade_percentage", {75}),
        d \in Opt("semester_id", GpaSemesters \cup {None})}

ProgramUpdateBodies ==
    {a @@ b :
        a \in Opt("gpa_scaling_table", {"oops", "{\"90-100\": 4.0, \"0-89\": 2.0}"}),
        b \in Opt("cgpa_scaled", {<<37, 10>>})}

InitGpa ==
    /\ OldIdle
    /\ WidgetIdle
    /\ GpaIdle
    /\ UploadIdle
    /\ DataIdle

\* what a request leaves in the three tables
GpaStored(db) ==
    /\ gpa_courses' = db.courses
    /\ gpa_averages' = db.average_scaled
    /\ gpa_program' = db.program

CreateCourseForSemester ==
    /\ gpa_course_ids < MaxCourses
    /\ \E semester_id \in GpaSemesters, body \in CourseCreateBodies :
        GpaStored(create_course(GpaDb, gpa_course_ids + 1, CourseCreate(body), semester_id))
    /\ gpa_course_ids' = gpa_course_ids + 1
    /\ UNCHANGED <<notGpaVars>>

CreateCourseForProgram ==
    /\ gpa_course_ids < MaxCourses
    /\ \E body \in CourseCreateBodies :
        GpaStored(create_course(GpaDb, gpa_course_ids + 1, CourseCreate(body), None))
    /\ gpa_course_ids' = gpa_course_ids + 1
    /\ UNCHANGED <<notGpaVars>>

\* PUT /courses/{course_id}
UpdateCourse ==
    /\ \E course_id \in DOMAIN gpa_courses, body \in CourseUpdateBodies :
        GpaStored(update_course(GpaDb, course_id, body))
    /\ UNCHANGED <<gpa_course_ids, notGpaVars>>

\* DELETE /courses/{course_id}
DeleteCourse ==
    /\ \E course_id \in DOMAIN gpa_courses :
        GpaStored(delete_course(GpaDb, course_id))
    /\ UNCHANGED <<gpa_course_ids, notGpaVars>>

\* PUT /programs/{program_id}
UpdateProgram ==
    /\ \E body \in ProgramUpdateBodies :
        GpaStored(update_program(GpaDb, body))
    /\ UNCHANGED <<gpa_course_ids, notGpaVars>>

NextGpa ==
    \/ CreateCourseForSemester
    \/ CreateCourseForProgram
    \/ UpdateCourse
    \/ DeleteCourse
    \/ UpdateProgram

SpecGpa == InitGpa /\ [][NextGpa]_vars

(***************************************************************************)
(* Vocabulary of the conflict-detection claims, stated on the occurrences  *)
(* themselves and not through the operators of detect_conflicts.           *)
(***************************************************************************)
IsActive(it) == it.enable = TRUE /\ it.skip = FALSE

\* half-open intervals [start, end) that intersect
Intersecting(a, b) == a.start_time < b.end_time /\ b.start_time < a.end_time

\* two occurrences that conflict directly
DirectConflict(a, b) ==
    /\ IsActive(a) /\ IsActive(b)
    /\ a.course_id # b.course_id
    /\ a.day_of_week = b.day_of_week
    /\ Intersecting(a, b)

Indices == 1..Len(input)

\* the indices a chain of direct conflicts links to the indices of S
RECURSIVE Linked(_)
Linked(S) ==
    LET more == S \cup {j \in Indices : \E i \in S : DirectConflict(input[i], input[j])}
    IN  IF more = S THEN S ELSE Linked(more)

SameGroup(i, j) ==
    /\ items[i].conflict_group_id # None
    /\ items[i].conflict_group_id = items[j].conflict_group_id

Detected == runs >= 1

\* C1: after detect_conflicts, every pair of active occurrences of different
\* courses on the same day with intersecting half-open intervals is marked
\* is_conflict on both sides and carries one non-null conflict_group_id.
C1_OverlappingPairShareGroup ==
    Detected =>
        \A i, j \in Indices :
            (i # j /\ DirectConflict(input[i], input[j])) =>
                /\ items[i].is_conflict = TRUE
                /\ items[j].is_conflict = TRUE
                /\ SameGroup(i, j)

C1_Witness ==
    /\ Detected
    /\ \E i, j \in Indices :
          /\ i < j
          /\ DirectConflict(input[i], input[j])
          /\ items[i].conflict_group_id = <<"conflict", 1>>
          /\ items[j].is_conflict = TRUE

\* C2: the conflict groups are the connected components of size >= 2 of the
\* direct-conflict graph: two occurrences carry the same non-null
\* conflict_group_id exactly when a chain of direct conflicts links them.
C2_GroupsAreComponents ==
    Detected =>
        \A i, j \in Indices :
            i # j => (SameGroup(i, j) <=> (j \in Linked({i})))

C2_Witness ==
    /\ Detected
    /\ \E i, j \in Indices :
          /\ i # j
          /\ input[i].course_id # input[j].course_id
          /\ ~DirectConflict(input[i], input[j])
          /\ j \in Linked({i})
          /\ SameGroup(i, j)

\* C3 as claimed: a pair that does not overlap (or lies on different days)
\* and a pair of the same course never share a conflict group.
C3_Claimed_NoSharedGroupWithoutOverlap ==
    Detected =>
        \A i, j \in Indices :
            (i # j /\ ~DirectConflict(input[i], input[j])) => ~SameGroup(i, j)

\* C3 amended: occurrences on different days never share a conflict group;
\* a same-day pair that does not conflict directly (disjoint intervals or
\* same course) shares a group only when each of the two conflicts directly
\* with some other occurrence of that group.
C3_NoSharedGroupWithoutChain ==
    Detected =>
        \A i, j \in Indices :
            (i # j /\ SameGroup(i, j)) =>
                /\ input[i].day_of_week = input[j].day_of_week
                /\ \/ DirectConflict(input[i], input[j])
                   \/ /\ \E k \in Indices \ {i, j} :
                            DirectConflict(input[i], input[k]) /\ SameGroup(i, k)
                      /\ \E k \in Indices \ {i, j} :
                            DirectConflict(input[j], input[k]) /\ SameGroup(j, k)

C3_Witness ==
    /\ Detected
    /\ \E i, j \in Indices :
          /\ i # j
          /\ input[i].course_id = input[j].course_id
          /\ ~Intersecting(input[i], input[j])
          /\ SameGroup(i, j)

\* the fields of an occurrence that detect_conflicts does not annotate
Payload(it) ==
    <<it.course_id, it.day_of_week, it.start_time, it.end_time, it.enable, it.skip>>

\* C4: detect_conflicts returns the same occurrences in the same order, leaves
\* every occurrence with enable=false or skip=true exactly as it was, and
\* marks an occurrence only when it conflicts directly with another active one.
C4_InactiveUntouched ==
    Detected =>
        /\ Len(items) = Len(input)
        /\ \A i \in Indices :
              /\ Payload(items[i]) = Payload(input[i])
              /\ ~IsActive(input[i]) => items[i] = input[i]
              /\ (items[i].is_conflict = TRUE \/ items[i].conflict_group_id # None) =>
                    \E j \in Indices \ {i} : DirectConflict(input[i], input[j])

C4_Witness ==
    /\ Detected
    /\ \E i, j, k \in Indices :
          /\ input[i].enable = FALSE
          /\ input[j].skip = TRUE /\ input[j].enable = TRUE
          /\ IsActive(input[k])
          /\ input[i].course_id # input[k].course_id
          /\ input[j].course_id # input[k].course_id
          /\ input[i].day_of_week = input[k].day_of_week
          /\ input[j].day_of_week = input[k].day_of_week
          /\ Intersecting(input[i], input[k])
          /\ Intersecting(input[j], input[k])
          /\ items[k].is_conflict = FALSE

\* the cluster of an occurrence: what chains of direct conflicts link to it
Cluster(i) == Linked({i})

Clustered(i) == Cardinality(Cluster(i)) >= 2

\* the earliest members of the clusters of two or more occurrences
ClusterHeads == {Min(Cluster(j)) : j \in {k \in Indices : Clustered(k)}}

\* the place of the cluster of i among the clusters, by earliest member
ClusterNumber(i) == Cardinality({h \in ClusterHeads : h <= Min(Cluster(i))})

\* C15: the identifiers detect_conflicts assigns are conflict-1 .. conflict-k
\* for the k clusters of two or more occurrences, without gaps and with none
\* for a singleton, numbered in the order in which the earliest member of a
\* cluster comes in the input.
C15_GroupNumbering ==
    Detected =>
        \A i \in Indices :
            IF Clustered(i)
            THEN /\ items[i].is_conflict
                 /\ items[i].conflict_group_id = <<"conflict", ClusterNumber(i)>>
            ELSE /\ ~items[i].is_conflict
                 /\ items[i].conflict_group_id = None

\* two interleaved clusters: the one that starts first is conflict-1, the
\* other conflict-2
C15_Witness ==
    /\ Detected
    /\ Len(items) = 4
    /\ \A i \in DOMAIN items : items[i].is_conflict
    /\ items[1].conflict_group_id = <<"conflict", 1>>
    /\ items[2].conflict_group_id = <<"conflict", 2>>
    /\ items[3].conflict_group_id = <<"conflict", 1>>
    /\ items[4].conflict_group_id = <<"conflict", 2>>

\* C16: detect_conflicts applied to its own output leaves is_conflict and
\* conflict_group_id of every occurrence as the first application set them.
C16_Idempotent ==
    [][Detected =>
        /\ Len(items') = Len(items)
        /\ \A i \in DOMAIN items :
            /\ items'[i].is_conflict = items[i].is_conflict
            /\ items'[i].conflict_group_id = items[i].conflict_group_id]_vars

\* the second application has run on a list with a conflict group
C16_Witness ==
    /\ runs = 2
    /\ \E i \in DOMAIN items : items[i].is_conflict

(***************************************************************************)
(* Claims about the stored events and the request validation (SpecStore)   *)
(***************************************************************************)
\* C5: no stored event has skip=true while the event type its event_type_code
\* names has track_attendance=true.
C5_Claimed_NoSkipOnTrackedType ==
    \A id \in DOMAIN events :
        \A t \in eventTypes :
            (t.code = events[id].event_type_code /\ t.track_attendance) =>
                events[id].skip = FALSE

\* the responses that refuse a request because of its weekPattern: the
\* schema's, normalize_week_pattern's and the check constraint's
WeekPatternRefusals ==
    {"RequestValidationError", "INVALID_WEEK_PATTERN", "EVENT_CREATE_CONFLICT"}

\* the week patterns of the rows now stored
StoredWeekPatterns ==
    {events[id].week_pattern : id \in DOMAIN events}
        \cup {sections[sid].week_pattern : sid \in DOMAIN sections}

\* C8: a create-event or create-section request is never refused because of
\* its weekPattern when that is EVERY or ALTERNATING, and when accepted the
\* row is stored with that value; every other weekPattern value is refused
\* with a validation error (422).
C8_Claimed_EveryAndAlternatingAccepted ==
    last.op \in {"create_course_event", "create_course_section"} =>
        IF last.week_pattern \in {"EVERY", "ALTERNATING"}
        THEN /\ last.error \notin WeekPatternRefusals
             /\ last.status = 200 => last.week_pattern \in StoredWeekPatterns
        ELSE /\ last.status = 422
             /\ last.error \in WeekPatternRefusals

(***************************************************************************)
(* Claims about week resolution (SpecResolve)                              *)
(***************************************************************************)
Called == call.op # None

\* the stored rows the call ranged over
InScope(i) ==
    call.op = "collect_semester_week_items" \/ stored[i].course_id = call.course_id

Produced(i) ==
    \E k \in DOMAIN resolved.items : resolved.items[k].event_id = stored[i].id

MaxWeek == IF semester_days > 7 THEN (semester_days + 6) \div 7 ELSE 1

EffectiveStart(row) == IF row.start_week = 0 THEN 1 ELSE row.start_week

EffectiveEnd(row) ==
    IF "end_week" \in DOMAIN row /\ row.end_week # 0 THEN row.end_week ELSE MaxWeek

\* the row passes the defensive time/day check
SoundTimeAndDay(row) ==
    /\ validate_time_range(row.start_time, row.end_time)
    /\ validate_day_of_week(row.day_of_week)

SoundRow(row) == SoundTimeAndDay(row) /\ EffectiveStart(row) <= EffectiveEnd(row)

InsideRange(row) ==
    EffectiveStart(row) <= requested_week /\ requested_week <= EffectiveEnd(row)

\* C6: a pattern yields no occurrence in a week before its effective start
\* (startWeek or 1) or after its effective end (endWeek or maxWeek).
C6_NothingOutsideRange ==
    Called =>
        \A i \in DOMAIN stored :
            (requested_week < EffectiveStart(stored[i])
                \/ requested_week > EffectiveEnd(stored[i])) => ~Produced(i)

\* an enabled sound EVERY row past its end week is left out while another row
\* of the call yields an occurrence
C6_Witness ==
    /\ Called
    /\ \E i, j \in DOMAIN stored :
        /\ InScope(i) /\ InScope(j)
        /\ SoundRow(stored[i]) /\ stored[i].enable /\ stored[i].week_pattern = "EVERY"
        /\ requested_week > EffectiveEnd(stored[i])
        /\ ~Produced(i)
        /\ Produced(j)

\* C7: inside the effective range an enabled valid EVERY pattern yields an
\* occurrence in every week, and an enabled valid ALTERNATING pattern yields
\* one exactly in the weeks w with (w - anchorWeek) mod 2 = 0, anchorWeek
\* being startWeek or 1.
C7_WeekPatternMatching ==
    Called =>
        \A i \in DOMAIN stored :
            (InScope(i) /\ SoundRow(stored[i]) /\ stored[i].enable
                /\ InsideRange(stored[i])) =>
                /\ stored[i].week_pattern = "EVERY" => Produced(i)
                /\ stored[i].week_pattern = "ALTERNATING" =>
                    (Produced(i) <=>
                        (requested_week - EffectiveStart(stored[i])) % 2 = 0)

\* an ALTERNATING row anchored at week 2 yields an occurrence in week 4
C7_Witness ==
    /\ Called
    /\ requested_week = 4
    /\ \E i \in DOMAIN stored :
        /\ InScope(i) /\ SoundRow(stored[i]) /\ stored[i].enable
        /\ stored[i].week_pattern = "ALTERNATING"
        /\ stored[i].start_week = 2
        /\ Produced(i)

\* the row fails the defensive time/day check or the week-range check
Faulty(row) == ~SoundRow(row)

WarningsNaming(i) ==
    {k \in DOMAIN resolved.warnings : resolved.warnings[k][2] = stored[i].id}

Without(i) == SubSeq(stored, 1, i - 1) \o SubSeq(stored, i + 1, Len(stored))

\* the same call on the stored rows without row i
CalledWithout(i) ==
    IF call.op = "collect_semester_week_items"
    THEN collect_semester_week_items(Without(i), semester_days, requested_week)
    ELSE collect_course_week_items(Without(i), call.course_id, semester_days,
                                   requested_week)

\* C10: a stored pattern failing the defensive time/day or week-range check
\* yields no occurrence and exactly one warning naming it, and the
\* occurrences of the call are those the call returns without that pattern.
C10_FaultIsolation ==
    Called =>
        \A i \in DOMAIN stored :
            (InScope(i) /\ Faulty(stored[i])) =>
                /\ ~Produced(i)
                /\ Cardinality(WarningsNaming(i)) = 1
                /\ resolved.items = CalledWithout(i).items

\* a faulty row is followed by a row that yields an occurrence
C10_Witness ==
    /\ Called
    /\ \E i, j \in DOMAIN stored :
        /\ i < j
        /\ InScope(i) /\ Faulty(stored[i])
        /\ Cardinality(WarningsNaming(i)) = 1
        /\ Produced(j)

(***************************************************************************)
(* Claims about the ICS import (SpecImport)                                *)
(***************************************************************************)
Emitted == meeting # NoKeys

\* the week indexes of the group, counted from the semester start
GroupWeeks ==
    {IF d >= 7 THEN (d \div 7) + 1 ELSE 1 : d \in occurrence_dates}

GapOfTwoThroughout ==
    /\ Cardinality(GroupWeeks) >= 2
    /\ \A w \in GroupWeeks :
        (\E v \in GroupWeeks : v < w) => (w - 2 \in GroupWeeks /\ w - 1 \notin GroupWeeks)

\* C9: the meeting emitted for a group has weekPattern ALTERNATING when the
\* sorted distinct week indices of the group (at least two) differ by 2
\* throughout, and EVERY otherwise.
C9_Claimed_AlternatingOrEvery ==
    Emitted =>
        meeting.weekPattern = IF GapOfTwoThroughout THEN "ALTERNATING" ELSE "EVERY"

\* the items of a batch applied one after the other, up to the first that
\* fails
RECURSIVE ItemsApplied(_, _, _)
ItemsApplied(db, batch, index) ==
    IF index > Len(batch) THEN [db |-> db, failed |-> FALSE]
    ELSE LET r == apply_batch_item(db, batch[index])
         IN  IF r.status = 200 THEN ItemsApplied(r.db, batch, index + 1)
             ELSE [db |-> db, failed |-> TRUE, index |-> index - 1]

\* this step answers an atomic batch
AtomicBatchAnswered ==
    /\ last'.op = "batch_course_events"
    /\ "atomic" \in DOMAIN last'
    /\ last'.atomic

\* C27 as stated: with atomic=true, when an item of the batch fails the
\* stored events are those stored before the request and the error reports
\* the index of the failing item; when none fails the effects of all items
\* are stored.
C27_Claimed_AtomicAllOrNothing ==
    [][AtomicBatchAnswered =>
        LET applied == ItemsApplied(Db, last'.items, 1)
        IN  IF applied.failed
            THEN /\ events' = events
                 /\ last'.failed_index = <<applied.index>>
            ELSE events' = applied.db.events]_vars

\* the part of C27 about what is stored
AtomicBatchStoresAllOrNothing ==
    [][AtomicBatchAnswered =>
        LET applied == ItemsApplied(Db, last'.items, 1)
        IN  IF applied.failed
            THEN /\ events' = events
                 /\ last'.status = 422 => last'.failed_index = <<applied.index>>
            ELSE events' = applied.db.events]_vars

\* an atomic batch whose second item failed after its first had created an
\* event
AtomicBatchRolledBack ==
    /\ last.op = "batch_course_events"
    /\ "atomic" \in DOMAIN last
    /\ last.atomic
    /\ last.status = 422
    /\ last.failed_index = <<1>>
    /\ last.items[1].op = "create"
    /\ events = <<>>

(***************************************************************************)
(* Claims about the expansion of a weekly rule (SpecExpand)                *)
(***************************************************************************)
Expanded == expansion # NoKeys

\* C19 as stated: the expansion iterates at most 128 weeks whatever the rule
\* is, and returns at least one date and at most 128 times as many dates as
\* the rule's by-day set has days.
C19_Claimed_ByDaySetBound ==
    Expanded =>
        /\ expansion.weeks <= EXPANSION_GUARD
        /\ Len(expansion.dates) >= 1
        /\ Len(expansion.dates) <= EXPANSION_GUARD * Len(weekly_rule.byday_days)

\* C19: the expansion iterates at most 128 weeks whatever the rule is, and
\* returns at least one date and at most 128 dates per day of the by-day set,
\* an empty by-day set counting as the one weekday of the start date.
C19_ExpansionBounds ==
    Expanded =>
        /\ expansion.weeks <= EXPANSION_GUARD
        /\ Len(expansion.dates) >= 1
        /\ Len(expansion.dates) <=
               EXPANSION_GUARD * (IF weekly_rule.byday_days = <<>> THEN 1
                                  ELSE Len(weekly_rule.byday_days))

\* a rule on every weekday whose end date the guard stops short of
C19_Witness ==
    /\ Expanded
    /\ expansion.weeks = EXPANSION_GUARD
    /\ Len(weekly_rule.byday_days) = 7
    /\ Len(expansion.dates) = EXPANSION_GUARD * 7
    /\ expansion.dates[Len(expansion.dates)] < weekly_rule.end_date

\* a rule without BYDAY that returns several dates
C19_WitnessNoByDay ==
    /\ Expanded
    /\ weekly_rule.byday_days = <<>>
    /\ Len(expansion.dates) > 1

\* the rule has an occurrence count
Counted == Expanded /\ "count" \in DOMAIN weekly_rule

\* the rule comes from an RRULE with a COUNT and without an UNTIL
CountedWithoutUntil ==
    /\ components # <<>>
    /\ "COUNT" \in DOMAIN components[1].rrule
    /\ "UNTIL" \notin DOMAIN components[1].rrule

\* the weekdays of the by-day set, or else the weekday of the start date
RuleWeekdays ==
    IF weekly_rule.byday_days = <<>> THEN {(weekly_rule.start_date % 7) + 1}
    ELSE {weekly_rule.byday_days[i] : i \in DOMAIN weekly_rule.byday_days}

\* the dates of the rule's weekdays, from the start date on, in the 128
\* weeks iterated, are at least as many as the count
CountFitsGuard ==
    Cardinality({d \in RuleWeekdays : d >= (weekly_rule.start_date % 7) + 1})
        + (EXPANSION_GUARD - 1) * Cardinality(RuleWeekdays) >= weekly_rule.count

\* C25: for a weekly rule with occurrence count c, _expand_occurrence_dates
\* returns at most c dates, each on or after the first occurrence date and on
\* a weekday of the by-day set or on the start date's weekday; when no end
\* date is given and c occurrences fit within the 128 iterated weeks, it
\* returns exactly c dates (the window of count*interval*7 + 7 days does not
\* cut the series short).
C25_CountBoundedExpansion ==
    Counted =>
        /\ Len(expansion.dates) <= weekly_rule.count
        /\ \A i \in DOMAIN expansion.dates :
               /\ expansion.dates[i] >= weekly_rule.start_date
               /\ \/ (expansion.dates[i] % 7) + 1 \in RuleWeekdays
                  \/ expansion.dates[i] % 7 = weekly_rule.start_date % 7
        /\ (CountedWithoutUntil /\ CountFitsGuard) =>
               /\ Len(expansion.dates) = weekly_rule.count
               /\ Cardinality({expansion.dates[i] : i \in DOMAIN expansion.dates})
                      = weekly_rule.count

\* three Mondays every other week, counted from a Sunday
C25_Witness ==
    /\ Counted
    /\ CountedWithoutUntil
    /\ weekly_rule.start_date = 6
    /\ weekly_rule.interval = 2
    /\ weekly_rule.byday_days = <<1>>
    /\ weekly_rule.count = 3
    /\ expansion.dates = <<14, 28, 42>>

\* a count that the end date cuts short
C25_WitnessCutByEndDate ==
    /\ Counted
    /\ ~CountedWithoutUntil
    /\ weekly_rule.count = 3
    /\ Len(expansion.dates) = 2

\* a count that the 128 weeks cut short
C25_WitnessCutByGuard ==
    /\ Counted
    /\ CountedWithoutUntil
    /\ ~CountFitsGuard
    /\ Len(expansion.dates) = EXPANSION_GUARD

(***************************************************************************)
(* Claims about the data import (SpecData)                                 *)
(***************************************************************************)
\* the names of the programs are pairwise distinct, ignoring case
DistinctNames(rows) ==
    \A i, j \in DOMAIN rows : lower(rows[i].name) = lower(rows[j].name) => i = j

\* C30 as stated: import_user_data keeps the program names of the user
\* pairwise distinct ignoring case, whatever the conflict_mode and the
\* payload are, also when a name occurs more than once in the payload.
C30_Claimed_NamesStayUnique ==
    [][(import_last'.op = "import_user_data" /\ DistinctNames(user_programs))
          => DistinctNames(user_programs')]_vars

\* the same for the modes skip and rename
NamesStayUniqueUnlessOverwrite ==
    [][(/\ import_last'.op = "import_user_data"
        /\ import_last'.conflict_mode # "overwrite"
        /\ DistinctNames(user_programs))
          => DistinctNames(user_programs')]_vars

\* an import that renamed the second of two programs of one name
RenamedTwice ==
    /\ import_last.op = "import_user_data"
    /\ import_last.conflict_mode = "rename"
    /\ import_last.names = <<<<"Plan">>, <<"plan">>>>
    /\ \E i, j \in DOMAIN user_programs :
        /\ user_programs[i].name = <<"Plan", "(2)">>
        /\ user_programs[j].name = <<"plan", "(3)">>

(***************************************************************************)
(* Claims about the ICS upload (SpecUpload)                                *)
(***************************************************************************)
Uploaded == ics_response # NoKeys /\ ics_response.status = 200

\* import_course_schedule_from_ics refuses the meeting
MeetingRejected(item) ==
    \/ normalize_week_pattern(item.weekPattern).error # None
    \/ ~validate_day_of_week(item.dayOfWeek)
    \/ ~validate_time_range(item.startTime, item.endTime)
    \/ item.startWeek < 1 \/ item.startWeek > item.endWeek
    \/ item.sectionId # None /\ ~validate_section_id(item.sectionId)

EventsOfCourse(course_id) ==
    {i \in DOMAIN ics_tables.events : ics_tables.events[i].course_id = course_id}

SectionsOfCourse(course_id) ==
    {i \in DOMAIN ics_tables.sections : ics_tables.sections[i].course_id = course_id}

\* the stored event of a candidate pattern
StoredAs(item, row) ==
    /\ row.event_type_code = item.eventTypeCode
    /\ row.day_of_week = item.dayOfWeek
    /\ row.start_time = item.startTime
    /\ row.end_time = item.endTime
    /\ row.week_pattern = item.weekPattern
    /\ row.start_week = item.startWeek
    /\ row.end_week = item.endWeek

\* C29 as stated: the upload stores the semester and every parsed course;
\* of a course with a meeting that import_course_schedule_from_ics rejects
\* no event and no section is stored; of a course without such a meeting
\* every candidate pattern is stored as one event.
C29_Claimed_CourseAllOrNothing ==
    Uploaded =>
        /\ Len(ics_tables.semesters) = 1
        /\ Len(ics_tables.courses) = Len(schedule.courses)
        /\ \A c \in DOMAIN schedule.courses :
            LET meetings == schedule.courses[c].meetings
            IN  /\ ics_tables.courses[c] = schedule.courses[c].name
                /\ IF \E k \in DOMAIN meetings : MeetingRejected(meetings[k])
                   THEN EventsOfCourse(c) = {} /\ SectionsOfCourse(c) = {}
                   ELSE /\ Cardinality(EventsOfCourse(c)) = Len(meetings)
                        /\ \A k \in DOMAIN meetings :
                               \E i \in EventsOfCourse(c) :
                                   StoredAs(meetings[k], ics_tables.events[i])

\* the part of C29 that holds: a course's events are all stored or none is,
\* and none is when a meeting is rejected
CourseStoredWhollyOrNotAtAll ==
    Uploaded =>
        /\ Len(ics_tables.semesters) = 1
        /\ Len(ics_tables.courses) = Len(schedule.courses)
        /\ \A c \in DOMAIN schedule.courses :
            LET meetings == schedule.courses[c].meetings
            IN  /\ (\E k \in DOMAIN meetings : MeetingRejected(meetings[k])) =>
                       (EventsOfCourse(c) = {} /\ SectionsOfCourse(c) = {})
                /\ \/ EventsOfCourse(c) = {} /\ SectionsOfCourse(c) = {}
                   \/ /\ Cardinality(EventsOfCourse(c)) = Len(meetings)
                      /\ \A k \in DOMAIN meetings :
                             \E i \in EventsOfCourse(c) :
                                 StoredAs(meetings[k], ics_tables.events[i])

\* a course whose one meeting is stored, next to a course of which nothing is
OneCourseStoredOneNot ==
    /\ Uploaded
    /\ Len(ics_tables.courses) = 2
    /\ EventsOfCourse(1) # {}
    /\ EventsOfCourse(2) = {}
    /\ schedule.courses[2].meetings # <<>>

\* a course with two accepted meetings of one section, nothing stored
TwoMeetingsOfOneSectionLost ==
    /\ Uploaded
    /\ \E c \in DOMAIN schedule.courses :
        /\ Len(schedule.courses[c].meetings) = 2
        /\ \A k \in 1..2 : ~MeetingRejected(schedule.courses[c].meetings[k])
        /\ EventsOfCourse(c) = {}

(***************************************************************************)
(* Claims about parse_ics_schedule (SpecParse)                             *)
(***************************************************************************)
ParsedCalendar == schedule # NoKeys

\* the calendar is one sound VEVENT with a usable summary
OneSoundEvent ==
    /\ Len(components) = 1
    /\ components[1] \in {c \in Components : c.summary \in Summaries}
    /\ [dtstart |-> components[1].dtstart, dtend |-> components[1].dtend] \in SoundTimes

\* it repeats weekly with interval 1 on Monday and Wednesday until a given date
MondayWednesdayRule ==
    /\ OneSoundEvent
    /\ components[1].rrule # NoKeys
    /\ components[1].rrule.FREQ = "WEEKLY"
    /\ Has(components[1].rrule, "INTERVAL") /\ components[1].rrule.INTERVAL = 1
    /\ Has(components[1].rrule, "UNTIL")
    /\ ~Has(components[1].rrule, "COUNT")
    /\ {components[1].rrule.BYDAY[i] : i \in DOMAIN components[1].rrule.BYDAY} = {"MO", "WE"}

\* days from the first date to the end date of the rule
DaysToUntil == components[1].rrule.UNTIL.date - components[1].dtstart.date

\* one course with one pattern for Monday and one for Wednesday, no other,
\* each EVERY from week 1 to week 10
MondayAndWednesdayForTenWeeks ==
    /\ schedule.outcome = "returned"
    /\ Len(schedule.courses) = 1
    /\ Len(schedule.courses[1].meetings) = 2
    /\ {schedule.courses[1].meetings[i].dayOfWeek : i \in 1..2} = {1, 3}
    /\ \A i \in 1..2 :
          /\ schedule.courses[1].meetings[i].weekPattern = "EVERY"
          /\ schedule.courses[1].meetings[i].startWeek = 1
          /\ schedule.courses[1].meetings[i].endWeek = 10
          /\ schedule.courses[1].meetings[i].startTime = "10:00"
          /\ schedule.courses[1].meetings[i].endTime = "11:00"

\* C18 as stated: a weekly rule with interval 1 on Monday and Wednesday whose
\* end date is 10 weeks (70 days) after the first date is imported as one
\* pattern for Monday and one for Wednesday, each EVERY, startWeek 1, endWeek 10.
C18_Claimed_EndTenWeeksOut ==
    (ParsedCalendar /\ MondayWednesdayRule /\ DaysToUntil = 70) =>
        MondayAndWednesdayForTenWeeks

\* the end date lies in the tenth week counted from the first date, on or
\* after the Monday and the Wednesday of that week
EndsInTenthWeek ==
    /\ DaysToUntil \in 63..69
    /\ \A day \in {1, 3} :
          \E d \in 63..DaysToUntil : isoweekday(components[1].dtstart.date + d) = day

\* C18: a weekly rule with interval 1 on Monday and Wednesday whose end date
\* lies in the tenth week from the first date, on or after both classes of
\* that week, is imported as one pattern for Monday and one for Wednesday,
\* each EVERY, startWeek 1, endWeek 10.
C18_EndInTenthWeek ==
    (ParsedCalendar /\ MondayWednesdayRule /\ EndsInTenthWeek) =>
        MondayAndWednesdayForTenWeeks

C18_Witness ==
    /\ ParsedCalendar
    /\ MondayWednesdayRule
    /\ EndsInTenthWeek
    /\ components[1].dtstart.date = 0
    /\ MondayAndWednesdayForTenWeeks

\* the same rule starting on a Wednesday
C18_WitnessWednesday ==
    /\ ParsedCalendar
    /\ MondayWednesdayRule
    /\ EndsInTenthWeek
    /\ components[1].dtstart.date = 2

\* the start/end fields of a VEVENT are missing or undecodable
Unreadable(component) ==
    \/ component.dtstart.kind \in {"missing", "undecodable"}
    \/ component.dtend.kind \in {"missing", "undecodable"}

\* one of them is a date without a time
DateOnlyFields(component) ==
    /\ ~Unreadable(component)
    /\ "date" \in {component.dtstart.kind, component.dtend.kind}

\* one is a floating time and the other a zoned one
MixedZones(component) ==
    /\ component.dtstart.kind = "datetime"
    /\ component.dtend.kind = "datetime"
    /\ component.dtstart.aware # component.dtend.aware

\* both are times of the same sort and the end is not after the start
EndNotAfterStart(component) ==
    /\ component.dtstart.kind = "datetime"
    /\ component.dtend.kind = "datetime"
    /\ component.dtstart.aware = component.dtend.aware
    /\ \/ component.dtend.date < component.dtstart.date
       \/ /\ component.dtend.date = component.dtstart.date
          /\ component.dtend.hour <= component.dtstart.hour

BadFields(component) ==
    Unreadable(component) \/ DateOnlyFields(component) \/ EndNotAfterStart(component)

\* the calendar without its k-th VEVENT, and what it is parsed to
WithoutComponent(k) == SubSeq(components, 1, k - 1) \o SubSeq(components, k + 1, Len(components))

ParsedWithout(k) == parse_ics_calendar(WithoutComponent(k))

\* the day/time signatures of the patterns of a parsed calendar
Signatures(parsed) ==
    UNION {{[courseName |-> parsed.courses[c].name,
             eventTypeCode |-> parsed.courses[c].meetings[i].eventTypeCode,
             sectionId |-> parsed.courses[c].meetings[i].sectionId,
             dayOfWeek |-> parsed.courses[c].meetings[i].dayOfWeek,
             startTime |-> parsed.courses[c].meetings[i].startTime,
             endTime |-> parsed.courses[c].meetings[i].endTime] :
                i \in DOMAIN parsed.courses[c].meetings} : c \in DOMAIN parsed.courses}

\* the k-th VEVENT has bad start/end fields and no other VEVENT mixes zones
OnlyBadAt(k) ==
    /\ BadFields(components[k])
    /\ \A j \in DOMAIN components \ {k} : ~MixedZones(components[j])

FirstDate(parsed) == IF parsed.dated THEN <<parsed.semesterStartDate>> ELSE <<>>

C20_WitnessDateOnly ==
    /\ ParsedCalendar
    /\ Len(components) = 2
    /\ DateOnlyFields(components[2])
    /\ OnlyBadAt(2)
    /\ schedule.outcome = "returned"
    /\ schedule.courses # <<>>

\* an entry with a floating start and a zoned end stops the whole import
C20_WitnessMixedZones ==
    /\ ParsedCalendar
    /\ \E k \in DOMAIN components : MixedZones(components[k])
    /\ schedule.outcome = "raised"

(***************************************************************************)
(* Claims about the widget requests (SpecWidget)                           *)
(***************************************************************************)
\* the widget the request now answered was about, if I owned it
AskedOwned == owned_widget(widgets, semesters, widget_last'.widget_id, "me")

\* C21: deleting a widget whose is_removable is false, such as the default
\* course-list widget created with every semester, is refused with 400 and
\* leaves the widget stored; deleting a removable widget of the caller returns
\* 200 and the widget is no longer stored; no update request makes a
\* non-removable widget removable.
C21_NonRemovableStays ==
    [][/\ widget_last'.op = "create_semester" =>
            /\ widgets'[widget_last'.widget_id].widget_type = "course-list"
            /\ widgets'[widget_last'.widget_id].is_removable = FALSE
       /\ (widget_last'.op = "delete" /\ AskedOwned) =>
            IF widgets[widget_last'.widget_id].is_removable = FALSE
            THEN /\ widget_last'.status = 400
                 /\ widgets' = widgets
            ELSE /\ widget_last'.status = 200
                 /\ widget_last'.widget_id \notin DOMAIN widgets'
       /\ widget_last'.op = "update" =>
            \A w \in DOMAIN widgets :
                widgets[w].is_removable = FALSE =>
                    /\ w \in DOMAIN widgets'
                    /\ widgets'[w].is_removable = FALSE]_vars

\* the default widget of a semester, already updated by a request that also
\* carried is_removable, has just been refused deletion
C21_Witness ==
    /\ widget_last.op = "delete"
    /\ widget_last.status = 400
    /\ widget_last.widget_id = 1
    /\ widgets[1].layout_config = "L"
    /\ widgets[1].widget_type = None
    /\ widgets[1].is_removable = FALSE

\* a removable widget has just been deleted
C21_WitnessDeleted ==
    /\ widget_last.op = "delete"
    /\ widget_last.status = 200
    /\ widget_last.widget_id \notin DOMAIN widgets

CountedCourses(S) ==
    {c \in DOMAIN gpa_courses :
        gpa_courses[c].semester_id \in S /\ gpa_courses[c].include_in_gpa}

\* a quotient is the credit-weighted mean of grade_scaled over these courses,
\* 0 when their credits add up to 0
IsMeanOver(quotient, counted) ==
    LET credits == Sum([c \in counted |-> gpa_courses[c].credits], counted)
        points == Sum([c \in counted |->
                          gpa_courses[c].grade_scaled * gpa_courses[c].credits], counted)
    IN  IF credits = 0 THEN quotient[1] = 0
        ELSE quotient[1] * credits = points * quotient[2]

\* C23: every semester's average_scaled is the credit-weighted mean of
\* grade_scaled over its include_in_gpa courses (0 without credits), and the
\* program's cgpa_scaled the same mean over the courses of all its semesters,
\* after any sequence of course creates, updates, moves, deletes and program
\* updates.
C23_Claimed_AggregatesConsistent ==
    /\ \A s \in GpaSemesters : IsMeanOver(gpa_averages[s], CountedCourses({s}))
    /\ IsMeanOver(gpa_program.cgpa_scaled, CountedCourses(GpaSemesters))

(***************************************************************************)
(* Claims about the schedule export (SpecExport)                           *)
(***************************************************************************)
Responded == export_response # NoKeys /\ export_response.status = 200

InExportScope(row) ==
    export_request.scope = "semester" \/ row.course_id = export_request.scope_id

\* the row resolves to an occurrence in week w
MatchesWeek(row, w) ==
    /\ InExportScope(row)
    /\ SoundRow(row)
    /\ row.enable
    /\ EffectiveStart(row) <= w /\ w <= EffectiveEnd(row)
    /\ \/ row.week_pattern = "EVERY"
       \/ row.week_pattern = "ALTERNATING" /\ (w - EffectiveStart(row)) % 2 = 0

\* the merged items of the occurrence of event_id in week w
MergedOf(event_id, w) ==
    {m \in DOMAIN merged_items :
        merged_items[m].event_id = event_id /\ merged_items[m].week = w}

\* C11: a skip=true occurrence is never in an ics export, whatever the
\* skipRenderMode; in a png/pdf export it is absent under HIDE_SKIPPED and
\* present in every matching week with renderState SKIPPED_GRAY under
\* GRAY_SKIPPED; every retained non-skipped occurrence has renderState NORMAL.
C11_SkipRenderPolicy ==
    /\ \A k \in DOMAIN seen :
        \A i \in DOMAIN seen[k] :
            LET row == seen[k][i]
                w == export_weeks[k]
            IN  row.skip =>
                    IF export_request.format = "ics"
                        \/ export_request.skip_render_mode = "HIDE_SKIPPED"
                    THEN MergedOf(row.id, w) = {}
                    ELSE /\ MatchesWeek(row, w) => MergedOf(row.id, w) # {}
                         /\ \A m \in MergedOf(row.id, w) :
                                merged_items[m].render_state = "SKIPPED_GRAY"
    /\ \A m \in DOMAIN merged_items :
        ~merged_items[m].skip => merged_items[m].render_state = "NORMAL"

\* a GRAY_SKIPPED png export answered with a grayed occurrence in two weeks
\* next to a normal one
C11_Witness ==
    /\ Responded
    /\ export_request.format = "png"
    /\ export_request.skip_render_mode = "GRAY_SKIPPED"
    /\ \E a, b, c \in DOMAIN export_response.items :
        /\ export_response.items[a].skip /\ export_response.items[b].skip
        /\ export_response.items[a].event_id = export_response.items[b].event_id
        /\ export_response.items[a].week # export_response.items[b].week
        /\ export_response.items[a].render_state = "SKIPPED_GRAY"
        /\ export_response.items[b].render_state = "SKIPPED_GRAY"
        /\ export_response.items[c].render_state = "NORMAL"

IcsResponded == Responded /\ export_request.format = "ics"

\* the day of 2026 of a calendar date
RECURSIVE DaysBefore(_)
DaysBefore(month) == IF month = 1 THEN 0 ELSE DaysBefore(month - 1) + MONTH_DAYS[month - 1]

DayOfYear(stamp) == DaysBefore(stamp.month) + stamp.day

\* the time of day of a stamp as HH:mm text
TimeText(stamp) ==
    CASE stamp.hour = 9 /\ stamp.minute = 0 -> "09:00"
      [] stamp.hour = 10 /\ stamp.minute = 0 -> "10:00"
      [] stamp.hour = 11 /\ stamp.minute = 0 -> "11:00"
      [] OTHER -> "other"

\* C13: the ics export dates every occurrence at semesterStart +
\* (week-1)*7 + (dayOfWeek-1) days and combines that date with the stored
\* start and end time of day.
C13_EntryDates ==
    IcsResponded =>
        /\ Len(export_response.components) = Len(merged_items)
        /\ \A i \in DOMAIN merged_items :
            LET entry == export_response.components[i]
                item == merged_items[i]
                day == semester_start_date + (item.week - 1) * 7 + (item.day_of_week - 1)
            IN  /\ entry.dtstart.year = 2026 /\ entry.dtend.year = 2026
                /\ DayOfYear(entry.dtstart) = day
                /\ DayOfYear(entry.dtend) = day
                /\ TimeText(entry.dtstart) = item.start_time
                /\ TimeText(entry.dtend) = item.end_time

\* the ISO weekday of a day of 2026 (January 1st is a Thursday)
WeekdayIn2026(day) == ((day + 2) % 7) + 1

\* C28 as stated: whatever day the semester starts on, the entry exported
\* for an occurrence of a week in [1, maxWeek] and a dayOfWeek in 1..7 falls
\* on the ISO weekday dayOfWeek and within [semester startDate, semester
\* endDate].
C28_Claimed_EntryOnItsWeekday ==
    IcsResponded =>
        \A i \in DOMAIN merged_items :
            LET day == DayOfYear(export_response.components[i].dtstart)
                item == merged_items[i]
            IN  (item.week \in 1..MaxWeek /\ item.day_of_week \in 1..7) =>
                    /\ WeekdayIn2026(day) = item.day_of_week
                    /\ semester_start_date <= day
                    /\ day <= semester_start_date + semester_days - 1

\* the entries of a semester that starts on a Monday are on their weekday
EntriesOfMondaySemesterOnWeekday ==
    (IcsResponded /\ WeekdayIn2026(semester_start_date) = 1) =>
        \A i \in DOMAIN merged_items :
            WeekdayIn2026(DayOfYear(export_response.components[i].dtstart))
                = merged_items[i].day_of_week

\* semester start 2026-01-05, dayOfWeek 2, week 5, 10:00-11:00: an entry on
\* 2026-02-03 from 10:00 to 11:00
C13_Witness ==
    /\ IcsResponded
    /\ semester_start_date = 5
    /\ \E i \in DOMAIN merged_items :
        /\ merged_items[i].week = 5
        /\ merged_items[i].day_of_week = 2
        /\ merged_items[i].start_time = "10:00"
        /\ merged_items[i].end_time = "11:00"
        /\ export_response.components[i].dtstart =
            [year |-> 2026, month |-> 2, day |-> 3, hour |-> 10, minute |-> 0]
        /\ export_response.components[i].dtend =
            [year |-> 2026, month |-> 2, day |-> 3, hour |-> 11, minute |-> 0]

EntriesOf(event_id, w) ==
    {c \in DOMAIN export_response.components :
        export_response.components[c].uid = <<event_id, w, "@semestra">>}

\* C14: the ics export holds exactly one entry per resolved non-skipped
\* occurrence and week of the requested weeks, no entry has a recurrence
\* rule, and the entry identities are pairwise distinct.
C14_OneEntryPerOccurrence ==
    IcsResponded =>
        /\ \A k \in DOMAIN seen :
            \A i \in DOMAIN seen[k] :
                Cardinality(EntriesOf(seen[k][i].id, export_weeks[k])) =
                    IF MatchesWeek(seen[k][i], export_weeks[k]) /\ ~seen[k][i].skip
                    THEN 1 ELSE 0
        /\ \A c \in DOMAIN export_response.components :
            /\ "rrule" \notin DOMAIN export_response.components[c]
            /\ \E k \in DOMAIN seen :
                \E i \in DOMAIN seen[k] :
                    export_response.components[c].uid =
                        <<seen[k][i].id, export_weeks[k], "@semestra">>
        /\ \A c, d \in DOMAIN export_response.components :
            c # d => export_response.components[c].uid # export_response.components[d].uid

\* an ics export with one event in two weeks and two events in one week
C14_Witness ==
    /\ IcsResponded
    /\ \E c, d, e \in DOMAIN export_response.components :
        /\ export_response.components[c].uid[1] = export_response.components[d].uid[1]
        /\ export_response.components[c].uid[2] # export_response.components[d].uid[2]
        /\ export_response.components[c].uid[1] # export_response.components[e].uid[1]
        /\ export_response.components[c].uid[2] = export_response.components[e].uid[2]

\* the merged items of weeks k.. when every week is resolved from rows
RECURSIVE SnapshotItems(_, _)
SnapshotItems(rows, k) ==
    IF k > Len(export_weeks) THEN <<>>
    ELSE merge_week_items(export_request, export_request.format,
                          collect_export_items_for_week(export_request, rows,
                                                        semester_days, export_weeks[k]))
            \o SnapshotItems(rows, k + 1)

\* C17: every week of one export is resolved from one pattern set, the one
\* its first query returned: an event write committed while the loop runs
\* does not change the result.
C17_Claimed_OneSnapshot ==
    (Responded /\ seen # <<>>) =>
        /\ \A k \in DOMAIN seen : seen[k] = seen[1]
        /\ merged_items = SnapshotItems(seen[1], 1)

(***************************************************************************)
(* Claims about parse_export_weeks (SpecWeeks)                             *)
(***************************************************************************)
Parsed == export_request # NoKeys /\ export_response # NoKeys

Accepted == export_response.status = 200

Rejected == export_response.status = 422 /\ export_weeks = <<>>

\* C12: parse_export_weeks returns an ascending list of week indices
\* without duplicates, all within [1, maxWeek]: [w] for range=week, startWeek
\* to endWeek for range=weeks, 1 to maxWeek for range=term; a weeks request
\* with a missing bound, startWeek > endWeek or a bound outside [1, maxWeek]
\* is rejected with a validation error.
C12_ExportWeeks ==
    Parsed =>
        /\ Accepted \/ Rejected
        /\ Accepted =>
            /\ \A i \in DOMAIN export_weeks : 1 <= export_weeks[i] /\ export_weeks[i] <= MaxWeek
            /\ \A i, j \in DOMAIN export_weeks : i < j => export_weeks[i] < export_weeks[j]
        /\ export_request.range = "term" =>
            /\ Accepted
            /\ Len(export_weeks) = MaxWeek
            /\ \A i \in DOMAIN export_weeks : export_weeks[i] = i
        /\ export_request.range = "week" =>
            /\ Accepted => Len(export_weeks) = 1
            /\ "week" \in DOMAIN export_request =>
                IF 1 <= export_request.week /\ export_request.week <= MaxWeek
                THEN Accepted /\ export_weeks[1] = export_request.week
                ELSE Rejected
            /\ ("week" \notin DOMAIN export_request /\ clock.timezone_valid) => Accepted
        /\ export_request.range = "weeks" =>
            IF /\ "start_week" \in DOMAIN export_request
               /\ "end_week" \in DOMAIN export_request
               /\ 1 <= export_request.start_week
               /\ export_request.start_week <= export_request.end_week
               /\ export_request.end_week <= MaxWeek
            THEN /\ Accepted
                 /\ Len(export_weeks) = export_request.end_week - export_request.start_week + 1
                 /\ \A i \in DOMAIN export_weeks :
                        export_weeks[i] = export_request.start_week + i - 1
            ELSE Rejected

\* the request is for one week, resolved by resolve_week_index
WeekResolved == Parsed /\ export_request.range = "week"

\* today lies in [startDate, endDate]
TodayInSemester == 0 <= clock.today /\ clock.today <= semester_days - 1

\* max(1, ceil((endDate - startDate + 1) / 7))
CeilingOfWeeks == IF semester_days <= 7 THEN 1 ELSE (semester_days + 6) \div 7

\* C24: without a week from the caller, resolve_week_index returns
\* floor((today - startDate) / 7) + 1 when today, in the program's timezone,
\* lies in [startDate, endDate], and 1 otherwise; a week from the caller
\* outside [1, maxWeek] is rejected.
C24_CurrentWeek ==
    WeekResolved =>
        /\ ("week" \notin DOMAIN export_request /\ clock.timezone_valid) =>
               /\ Accepted
               /\ export_weeks = <<IF TodayInSemester THEN (clock.today \div 7) + 1 ELSE 1>>
        /\ ("week" \in DOMAIN export_request
               /\ (export_request.week < 1 \/ export_request.week > CeilingOfWeeks)) =>
               Rejected

\* today is in the third week of the semester and no week was asked for
C24_Witness ==
    /\ WeekResolved
    /\ "week" \notin DOMAIN export_request
    /\ TodayInSemester
    /\ clock.today = 15
    /\ export_weeks = <<3>>

\* today is after the end of the semester
C24_WitnessAfterEnd ==
    /\ WeekResolved
    /\ "week" \notin DOMAIN export_request
    /\ clock.today > semester_days - 1
    /\ clock.today >= 7
    /\ export_weeks = <<1>>

\* C26: every week index resolve_week_index returns, given by the caller or
\* derived from today, lies in [1, maxWeek], maxWeek being
\* max(1, ceil((endDate - startDate + 1) / 7)), whatever today is.
C26_ResolvedWeekInRange ==
    (WeekResolved /\ Accepted) =>
        /\ Len(export_weeks) = 1
        /\ 1 <= export_weeks[1]
        /\ export_weeks[1] <= CeilingOfWeeks

\* today is the last day of a semester whose last week is a single day
C26_Witness ==
    /\ WeekResolved
    /\ Accepted
    /\ "week" \notin DOMAIN export_request
    /\ semester_days % 7 = 1
    /\ semester_days > 7
    /\ clock.today = semester_days - 1
    /\ export_weeks = <<CeilingOfWeeks>>

\* weeks 2..3 of a semester of four weeks are returned as [2, 3]
C12_Witness ==
    /\ Parsed
    /\ MaxWeek = 4
    /\ export_request.range = "weeks"
    /\ export_weeks = <<2, 3>>

\* a weeks request ending after the last week is rejected
C12_WitnessRejected ==
    /\ Parsed
    /\ export_request.range = "weeks"
    /\ "start_week" \in DOMAIN export_request /\ "end_week" \in DOMAIN export_request
    /\ export_request.start_week = 1
    /\ export_request.end_week = MaxWeek + 1
    /\ Rejected

====
